---- MODULE Spec2Model ----
(***************************************************************************)
(* Model of app/services/chat_orchestrator.py: ChatOrchestrator and the    *)
(* session store it talks to.                                              *)
(*                                                                         *)
(* Text is a sequence of atoms (strings); "" is <<>>, an f-string is a     *)
(* concatenation.  An optional value (the result of redis hget, a missing  *)
(* dict key) is a sequence of length 0 (None) or 1 (the value).            *)
(***************************************************************************)
EXTENDS Integers, Sequences, FiniteSets, TLC

(* ---------------------------------------------------------------------- *)
(* Bounds of the model                                                     *)
(* ---------------------------------------------------------------------- *)

\* replies are generated only while the session's log has room for the two turns
MaxLog == 4

(* ---------------------------------------------------------------------- *)
(* Program constants                                                       *)
(* ---------------------------------------------------------------------- *)

MAX_TOKEN_LIMIT == 2000

SUMMARY_REDIS_KEY == "conversation_summary"

SUMMARY_LABEL == "**previous conversation summary:**"

(* ---------------------------------------------------------------------- *)
(* The environment: workers, sessions, messages                            *)
(* ---------------------------------------------------------------------- *)

\* request handlers (workers) that may run process_message at the same time
Procs == {"w1", "w2"}

\* the sessions that can be started; they are created outside the orchestrator
Sessions == {"s1", "s2"}

\* the session ids a request may carry: those and one that never exists
SessionIds == Sessions \cup {"sx"}

\* user messages: a short one and one that is longer than the token budget
UserMessages == {<<"a">>, <<"B">>}

\* texts the chat model may reply with
Replies == {<<"r">>}

None == <<>>

Some(v) == <<v>>

\* Python truthiness of an optional text: None and "" are both falsy
Truthy(opt) == opt # None /\ opt[1] # <<>>

(* ---------------------------------------------------------------------- *)
(* Token Estimator: len(self.tokenizer.encode(text))                       *)
(* ---------------------------------------------------------------------- *)

AtomTokens(a) ==
    CASE a = "a" -> 500
      [] a = "B" -> 2500
      [] a = "r" -> 700
      [] OTHER   -> 1

RECURSIVE TokenCount(_)
TokenCount(text) ==
    IF text = <<>> THEN 0
    ELSE AtomTokens(Head(text)) + TokenCount(Tail(text))

(* ---------------------------------------------------------------------- *)
(* Summarization-buffer memory: pure parts                                 *)
(* ---------------------------------------------------------------------- *)

\* mutant: the newest turn is always kept, whatever it costs
RECURSIVE RecentLoop_KeepsNewest(_, _, _)
RecentLoop_KeepsNewest(full_conversation, i, recent_token_count) ==
    IF i = 0 THEN 0
    ELSE LET msg_tokens == TokenCount(full_conversation[i].content)
         IN  IF i = Len(full_conversation)
                \/ recent_token_count + msg_tokens <= MAX_TOKEN_LIMIT
             THEN 1 + RecentLoop_KeepsNewest(full_conversation, i - 1,
                                             recent_token_count + msg_tokens)
             ELSE 0

\* mutant: a turn that does not fit is skipped and the walk goes on behind it
RECURSIVE RecentLoop_Continues(_, _, _)
RecentLoop_Continues(full_conversation, i, recent_token_count) ==
    IF i = 0 THEN 0
    ELSE LET msg_tokens == TokenCount(full_conversation[i].content)
         IN  IF recent_token_count + msg_tokens <= MAX_TOKEN_LIMIT
             THEN 1 + RecentLoop_Continues(full_conversation, i - 1,
                                           recent_token_count + msg_tokens)
             ELSE RecentLoop_Continues(full_conversation, i - 1, recent_token_count)

\* the recency loop: walks the log backward from the newest turn and keeps
\* turns while the running total stays within the budget; stops at the first
\* turn that does not fit.  Returns the number of recent turns.
RECURSIVE RecentLoop(_, _, _)
RecentLoop(full_conversation, i, recent_token_count) ==
    IF i = 0 THEN 0
    ELSE LET msg_tokens == TokenCount(full_conversation[i].content)
         IN  IF recent_token_count + msg_tokens <= MAX_TOKEN_LIMIT
             THEN 1 + RecentLoop(full_conversation, i - 1,
                                 recent_token_count + msg_tokens)
             ELSE 0

RecentCount(full_conversation) ==
    RecentLoop(full_conversation, Len(full_conversation), 0)

\* recent_messages, in original order
RecentMessages(full_conversation) ==
    SubSeq(full_conversation,
           Len(full_conversation) - RecentCount(full_conversation) + 1,
           Len(full_conversation))

\* old_messages = full_conversation[:len(full_conversation) - len(recent_messages)]
OldMessages(full_conversation) ==
    SubSeq(full_conversation, 1,
           Len(full_conversation) - RecentCount(full_conversation))

HumanMessage(content) == [type |-> "human", content |-> content]

AIMessage(content) == [type |-> "ai", content |-> content]

SystemMessage(content) == [type |-> "system", content |-> content]

\* mutant: the assistant branch is missing, assistant turns are dropped
RECURSIVE ConvertToLangchainMessages_NoAssistant(_)
ConvertToLangchainMessages_NoAssistant(messages) ==
    IF messages = <<>> THEN <<>>
    ELSE LET msg == Head(messages)
             rest == ConvertToLangchainMessages_NoAssistant(Tail(messages))
         IN  IF msg.role = "user" THEN <<HumanMessage(msg.content)>> \o rest
             ELSE rest

\* _convert_to_langchain_messages: user -> HumanMessage, assistant -> AIMessage,
\* any other role is skipped
RECURSIVE ConvertToLangchainMessages(_)
ConvertToLangchainMessages(messages) ==
    IF messages = <<>> THEN <<>>
    ELSE LET msg == Head(messages)
             rest == ConvertToLangchainMessages(Tail(messages))
         IN  IF msg.role = "user" THEN <<HumanMessage(msg.content)>> \o rest
             ELSE IF msg.role = "assistant" THEN <<AIMessage(msg.content)>> \o rest
             ELSE rest

\* conversation_text of _summarize_old_messages: one labelled line per message
RECURSIVE ConversationText(_)
ConversationText(old_messages) ==
    IF old_messages = <<>> THEN <<>>
    ELSE LET msg == Head(old_messages)
             role == IF msg.role = "user" THEN "user-label" ELSE "counsellor-label"
         IN  <<role, ": ">> \o msg.content \o <<"\n\n">>
                 \o ConversationText(Tail(old_messages))

\* the summarization model as a function of the conversation text it is given:
\* response.content.strip().  A model that answers with white space only
\* yields the empty text.
LLMSummary(blank, conversation_text) ==
    IF blank THEN <<>> ELSE <<"summary(">> \o conversation_text \o <<")">>

\* mutant: the cache is never trusted, every call summarizes again
NeedsSummary_AlwaysStale(cached_summary, cached_msg_count, old_len) ==
    old_len >= 0

\* the staleness test of the cache:
\* not cached_summary or (cached_msg_count and int(cached_msg_count) < len(old_messages))
NeedsSummary(cached_summary, cached_msg_count, old_len) ==
    \/ ~Truthy(cached_summary)
    \/ (cached_msg_count # None /\ cached_msg_count[1] < old_len)

\* the value returned when old turns exist: summary message, then recent turns
BufferedWithSummary(summary_text, recent_messages) ==
    <<SystemMessage(<<SUMMARY_LABEL, "\n">> \o summary_text)>>
        \o ConvertToLangchainMessages(recent_messages)


(* ---------------------------------------------------------------------- *)
(* Context assembly and the result of process_message: pure parts          *)
(* ---------------------------------------------------------------------- *)

SYSTEM_PROMPT == "system_prompt"

KNOWLEDGE_LABEL == "\n\n**knowledge:**\n"

DIARY_LABEL == "\n\n**past diaries:**\n"

UNKNOWN_DATE == "unknown"

\* mutant: the whole content of a diary is rendered
RECURSIVE DiaryLines_NoTruncation(_, _)
DiaryLines_NoTruncation(similar_diaries, idx) ==
    IF similar_diaries = <<>> THEN <<>>
    ELSE LET diary == Head(similar_diaries)
             created_at == IF diary.metadata.created_at = None
                           THEN UNKNOWN_DATE ELSE diary.metadata.created_at[1]
         IN  <<ToString(idx), ". [", created_at, "] ">> \o diary.content
                 \o <<"...\n">> \o DiaryLines_NoTruncation(Tail(similar_diaries), idx + 1)

\* one rendered line per retrieved diary: "{idx}. [{created_at}] {content[:200]}...\n"
RECURSIVE DiaryLines(_, _)
DiaryLines(similar_diaries, idx) ==
    IF similar_diaries = <<>> THEN <<>>
    ELSE LET diary == Head(similar_diaries)
             created_at == IF diary.metadata.created_at = None
                           THEN UNKNOWN_DATE ELSE diary.metadata.created_at[1]
             content == SubSeq(diary.content, 1,
                               IF Len(diary.content) < 200 THEN Len(diary.content) ELSE 200)
         IN  <<ToString(idx), ". [", created_at, "] ">> \o content
                 \o <<"...\n">> \o DiaryLines(Tail(similar_diaries), idx + 1)

\* mutant: the diary block is put before the knowledge block
BuildContextWithMemory_DiariesFirst(similar_diaries, buffered_messages, current_message, manual_context) ==
    LET knowledge == IF Truthy(manual_context)
                     THEN <<"\n", KNOWLEDGE_LABEL>> \o manual_context[1] \o <<"\n">>
                     ELSE <<>>
        diaries   == IF similar_diaries # <<>>
                     THEN <<"\n", DIARY_LABEL>> \o DiaryLines(similar_diaries, 1)
                     ELSE <<>>
    IN  <<SystemMessage(<<SYSTEM_PROMPT>> \o diaries \o knowledge)>>
            \o buffered_messages
            \o <<HumanMessage(current_message)>>

\* variant of BuildContextWithMemory: the current message is in the history
\* already and is added once more at the end
BuildContextWithMemory_CurrentInHistory(similar_diaries, buffered_messages, current_message, manual_context) ==
    LET knowledge == IF Truthy(manual_context)
                     THEN <<"\n", KNOWLEDGE_LABEL>> \o manual_context[1] \o <<"\n">>
                     ELSE <<>>
        diaries   == IF similar_diaries # <<>>
                     THEN <<"\n", DIARY_LABEL>> \o DiaryLines(similar_diaries, 1)
                     ELSE <<>>
    IN  <<SystemMessage(<<SYSTEM_PROMPT>> \o knowledge \o diaries)>>
            \o buffered_messages
            \o <<HumanMessage(current_message), HumanMessage(current_message)>>

\* _build_context_with_memory
BuildContextWithMemory(similar_diaries, buffered_messages, current_message, manual_context) ==
    LET knowledge == IF Truthy(manual_context)
                     THEN <<"\n", KNOWLEDGE_LABEL>> \o manual_context[1] \o <<"\n">>
                     ELSE <<>>
        diaries   == IF similar_diaries # <<>>
                     THEN <<"\n", DIARY_LABEL>> \o DiaryLines(similar_diaries, 1)
                     ELSE <<>>
    IN  <<SystemMessage(<<SYSTEM_PROMPT>> \o knowledge \o diaries)>>
            \o buffered_messages
            \o <<HumanMessage(current_message)>>

\* mutant: the dates are always a list, empty when nothing was retrieved
DiaryDates_AlwaysList(similar_diaries) ==
    Some([i \in 1..Len(similar_diaries) |-> similar_diaries[i].metadata.created_at])

\* [d["metadata"].get("created_at") for d in similar_diaries] if similar_diaries else None
DiaryDates(similar_diaries) ==
    IF similar_diaries # <<>>
    THEN Some([i \in 1..Len(similar_diaries) |-> similar_diaries[i].metadata.created_at])
    ELSE None

\* owner of each session, as get_session_info reports it
Owner(s) == IF s = "s1" THEN "u1" ELSE "u2"

\* diary contents of the corpus: one longer than the 200 characters that are
\* rendered, one of exactly 200, one short
LongContent == [i \in 1..201 |-> IF i = 201 THEN "z" ELSE "c"]

ExactContent == [i \in 1..200 |-> IF i = 200 THEN "y" ELSE "c"]

ShortContent == <<"d", "2">>

\* the diary retriever as a function of owner scope and query over a fixed
\* corpus (which holds the same entry twice): ranked items, at most k of them
SearchSimilarDiaries(user_id, query, k) ==
    LET ranked ==
            IF query = <<"a">> /\ user_id = "u1"
            THEN << [content |-> LongContent, metadata |-> [created_at |-> Some("2024-05-01")]],
                    [content |-> ShortContent, metadata |-> [created_at |-> None]],
                    [content |-> ShortContent, metadata |-> [created_at |-> None]],
                    [content |-> <<"d", "4">>, metadata |-> [created_at |-> Some("2024-05-04")]] >>
            ELSE IF query = <<"a">>
            THEN << [content |-> ExactContent, metadata |-> [created_at |-> Some("2024-06-01")]] >>
            ELSE <<>>
    IN  SubSeq(ranked, 1, IF Len(ranked) < k THEN Len(ranked) ELSE k)

\* the knowledge-base retriever of a deployment: none is configured, one is
\* configured but its QA chain was never built, or one is ready
VectorStores == {"none", "uninitialised", "ready"}

\* answers of the QA chain: a snippet, or the empty text
ManualAnswers == {<<"k">>, <<>>}

(* ---------------------------------------------------------------------- *)
(* Diary pipeline: pure parts                                              *)
(* ---------------------------------------------------------------------- *)

\* the fixed texts of summarize_conversation_to_diary
NO_CONTENT_TEXT == "no conversation to write a diary from"

EXTRACT_FAILED_TEXT == "diary generation failed: could not analyse the conversation"

FORMAT_FAILED_TEXT == "diary generation failed: analysed data has a wrong format"

UNKNOWN_ERROR_TEXT == "diary generation failed: unknown error"

\* characters str.strip() removes
Whitespace == {" ", "\n"}

\* the formatting fence a model puts around JSON
FENCE_OPEN == "~~~json"

FENCE_CLOSE == "~~~"

RECURSIVE LStrip(_)
LStrip(text) ==
    IF text # <<>> /\ Head(text) \in Whitespace THEN LStrip(Tail(text)) ELSE text

RECURSIVE RStrip(_)
RStrip(text) ==
    IF text # <<>> /\ text[Len(text)] \in Whitespace
    THEN RStrip(SubSeq(text, 1, Len(text) - 1)) ELSE text

\* str.strip()
Strip(text) == RStrip(LStrip(text))

\* position of the first / last occurrence of atom a in text, 0 when there is none
FirstIndex(text, a) ==
    IF \E i \in 1..Len(text) : text[i] = a
    THEN CHOOSE i \in 1..Len(text) :
            text[i] = a /\ \A j \in 1..(i - 1) : text[j] # a
    ELSE 0

LastIndex(text, a) ==
    IF \E i \in 1..Len(text) : text[i] = a
    THEN CHOOSE i \in 1..Len(text) :
            text[i] = a /\ \A j \in (i + 1)..Len(text) : text[j] # a
    ELSE 0

\* mutant: the text is not searched, only a text that starts with "{" is accepted
ExtractJsonFromMarkdown_NoSearch(text) ==
    IF Strip(text) # <<>> /\ Head(Strip(text)) = "{" THEN Some(text) ELSE None

\* _extract_json_from_markdown: the greedy search for "{" ... "}" is the span
\* from the first "{" to the last "}" behind it; without a match the text itself
\* is returned when it starts with "{" once stripped
ExtractJsonFromMarkdown(text) ==
    LET first == FirstIndex(text, "{")
        last  == LastIndex(text, "}")
    IN  IF first > 0 /\ last > first
        THEN Some(SubSeq(text, first, last))
        ELSE IF Strip(text) # <<>> /\ Head(Strip(text)) = "{" THEN Some(text)
        ELSE None

\* JSON values as json.loads builds them
JStr(t) == [type |-> "str", text |-> Some(t), items |-> <<>>]

JObj(text_field) == [type |-> "obj", text |-> text_field, items |-> <<>>]

JNum == [type |-> "num", text |-> None, items |-> <<>>]

JNull == [type |-> "null", text |-> None, items |-> <<>>]

JList(items) == [type |-> "list", text |-> None, items |-> items]

\* the "key": value members a stage-1 output is written with, one atom each
MemberAtoms == {"situation:s", "thoughts:[]", "thoughts:[t]", "thoughts:[{text:t}]",
                "thoughts:[t,{text:u}]", "thoughts:[{}]", "thoughts:[1]",
                "thoughts:null"}

Member(atom) ==
    CASE atom = "situation:s" -> [key |-> "situation", value |-> JStr(<<"s">>)]
      [] atom = "thoughts:[]" -> [key |-> "thoughts", value |-> JList(<<>>)]
      [] atom = "thoughts:[t]" -> [key |-> "thoughts", value |-> JList(<<JStr(<<"t">>)>>)]
      [] atom = "thoughts:[{text:t}]" ->
            [key |-> "thoughts", value |-> JList(<<JObj(Some(<<"t">>))>>)]
      [] atom = "thoughts:[t,{text:u}]" ->
            [key |-> "thoughts",
             value |-> JList(<<JStr(<<"t">>), JObj(Some(<<"u">>))>>)]
      [] atom = "thoughts:[{}]" -> [key |-> "thoughts", value |-> JList(<<JObj(None)>>)]
      [] atom = "thoughts:[1]" -> [key |-> "thoughts", value |-> JList(<<JNum>>)]
      [] atom = "thoughts:null" -> [key |-> "thoughts", value |-> JNull]

\* the text without its white space (insignificant between JSON tokens)
RECURSIVE Tokens(_)
Tokens(text) ==
    IF text = <<>> THEN <<>>
    ELSE IF Head(text) \in Whitespace THEN Tokens(Tail(text))
    ELSE <<Head(text)>> \o Tokens(Tail(text))

\* json.loads: Some(members in order) for a well-formed object, None for a
\* JSONDecodeError
JsonLoads(text) ==
    LET tokens == Tokens(text)
        n      == Len(tokens)
        inner  == SubSeq(tokens, 2, n - 1)
        wellFormed ==
            /\ n >= 2
            /\ tokens[1] = "{"
            /\ tokens[n] = "}"
            /\ \/ inner = <<>>
               \/ /\ Len(inner) % 2 = 1
                  /\ \A i \in 1..Len(inner) :
                        IF i % 2 = 1 THEN inner[i] \in MemberAtoms ELSE inner[i] = ","
    IN  IF wellFormed
        THEN Some([i \in 1..((Len(inner) + 1) \div 2) |-> Member(inner[2 * i - 1])])
        ELSE None

\* cbt_data.get(key, default): the last member with that key wins
DictGet(cbt_data, key, default) ==
    LET hits == {i \in 1..Len(cbt_data) : cbt_data[i].key = key}
    IN  IF hits = {} THEN default
        ELSE cbt_data[CHOOSE i \in hits : \A j \in hits : j <= i].value

\* whether `for t in thoughts_list` can iterate the value at all
Iterable(value) == value.type \in {"list", "str", "obj"}

\* mutant: only the plain-string form of a thought is accepted
RECURSIVE ThoughtTexts_StringsOnly(_)
ThoughtTexts_StringsOnly(thoughts_list) ==
    IF thoughts_list = <<>> THEN <<>>
    ELSE LET t == Head(thoughts_list)
         IN  (IF t.type = "str" THEN <<t.text[1]>> ELSE <<>>)
                 \o ThoughtTexts_StringsOnly(Tail(thoughts_list))

\* the loop at 655-659: a dict gives t.get('text', ''), a str gives itself,
\* anything else is skipped
RECURSIVE ThoughtTexts(_)
ThoughtTexts(thoughts_list) ==
    IF thoughts_list = <<>> THEN <<>>
    ELSE LET t == Head(thoughts_list)
         IN  (IF t.type = "obj" THEN <<IF t.text = None THEN <<>> ELSE t.text[1]>>
              ELSE IF t.type = "str" THEN <<t.text[1]>>
              ELSE <<>>)
                 \o ThoughtTexts(Tail(thoughts_list))

\* what the for loop iterates over: the items of a list, the characters of a
\* string, the keys of a dict
IterItems(value) ==
    IF value.type = "list" THEN value.items
    ELSE IF value.type = "str" THEN [i \in 1..Len(value.text[1]) |-> JStr(<<value.text[1][i]>>)]
    ELSE IF value.text = None THEN <<>> ELSE <<JStr(<<"text">>)>>

\* bodies the stage-1 model may answer with
Stage1Bodies ==
    { <<"{", "situation:s", ",", m, "}">> : m \in MemberAtoms \ {"situation:s"} }
    \cup { <<"{", "situation:s", "}">>,              \* no thoughts member
           <<"{", "}">>,                             \* empty object
           <<"{", "situation:s", ",", "}">>,         \* malformed: trailing comma
           <<"{", "situation:s">>,                   \* truncated
           <<"x">>,                                  \* prose only
           <<>>,                                     \* nothing
           <<"}", "x", "{">> }                       \* braces in the wrong order

\* the wrappings a body may come in: bare, fenced, inside prose
Wrap(style, body) ==
    CASE style = "bare" -> body
      [] style = "fenced" -> <<FENCE_OPEN, "\n">> \o body \o <<"\n", FENCE_CLOSE>>
      [] style = "prose" -> <<"x", " ">> \o body \o <<" ", "x">>
      [] style = "braced-prose" -> <<"{", "x", "}", " ">> \o body

Stage1Styles == {"bare", "fenced", "prose", "braced-prose"}

Stage1Outputs == { Wrap(style, body) : style \in Stage1Styles, body \in Stage1Bodies }

(* ---------------------------------------------------------------------- *)
(* State                                                                   *)
(* ---------------------------------------------------------------------- *)

VARIABLES
    log,                \* session store: session id -> ordered sequence of turns
    summary,            \* session store: hash field conversation_summary (optional text)
    summarized_count,   \* session store: hash field summarized_count (optional number)
    blank_llm,          \* whether the summarization model answers with white space only
    workers,            \* the request handlers the deployment runs
    vector_store,       \* the knowledge-base retriever the orchestrator was built with
    pc,                 \* position of each handler inside process_message
    session_id,         \* argument of the call
    user_message,       \* argument of the call
    full_conversation,  \* the log as loaded by the call
    cached_summary,     \* what hget(conversation_summary) returned to the call
    cached_msg_count,   \* what hget(summarized_count) returned to the call
    summary_text,       \* the summary the call uses (optional)
    buffered_messages,  \* value returned by _apply_summary_buffer_memory
    similar_diaries,    \* value returned by the diary retriever
    manual_context,     \* answer of the knowledge-base retriever (optional)
    assistant_response, \* reply generated by the chat model (optional)
    outcome,            \* how the call ended: result record or raised error
    calls,              \* per call: number of external calls made so far, by kind
    appended,           \* per call: the turns this call appended to the log
    count_used,         \* per call: the summarized_count the returned summary goes with
                        \* (the one read on a fresh cache, the one written otherwise)
    raced,              \* per call: its compress ran while another one on the same
                        \* session was between its load and its return
    last_compress,      \* per session, kept while a single worker serves the requests:
                        \* log and summary text of the last finished call whose
                        \* compress returned a summary
    context,            \* per call: value returned by _build_context_with_memory
    dpc,                \* position of the handler inside summarize_conversation_to_diary
    diary_session,      \* argument of the diary call
    transcript_turns,   \* the log as loaded by the diary call
    cbt_data_str,       \* text returned by chain_extract_cbt (optional)
    pure_json_str,      \* value returned by _extract_json_from_markdown (optional)
    cbt_data,           \* members json.loads built (optional)
    thought_texts,      \* the texts collected from cbt_data['thoughts']
    final_alternative_perspective,  \* text returned by chain_gen_perspective, or ""
    diary_result,       \* what the diary call handed to its caller
    diary_calls         \* the chains the diary call has invoked so far, in order

storeVars == <<log, summary, summarized_count>>

envVars == <<blank_llm, workers, vector_store>>

localVars == <<pc, session_id, user_message, full_conversation, cached_summary,
               cached_msg_count, summary_text, buffered_messages, similar_diaries,
               manual_context, assistant_response, outcome, calls, appended,
               count_used, raced>>

vars == <<log, summary, summarized_count, blank_llm, workers, vector_store, pc, session_id,
          user_message, full_conversation, cached_summary, cached_msg_count,
          summary_text, buffered_messages, similar_diaries, manual_context,
          assistant_response, outcome, calls, appended, count_used, raced,
          last_compress, context, dpc, diary_session, transcript_turns, cbt_data_str,
          pure_json_str, cbt_data, thought_texts, final_alternative_perspective,
          diary_result, diary_calls>>

diaryVars == <<dpc, diary_session, transcript_turns, cbt_data_str, pure_json_str,
               cbt_data, thought_texts, final_alternative_perspective, diary_result,
               diary_calls>>

NoDiaryResult == [status |-> "running", diary_text |-> <<>>,
                  alternative_perspective |-> <<>>]

NoCalls == [load |-> 0, summarize |-> 0, cache_write |-> 0, diary |-> 0,
            manual |-> 0, generate |-> 0]

NoOutcome == [status |-> "running", error |-> "", answer |-> <<>>, dates |-> None]

Turn(role, content) == [role |-> role, content |-> content]

\* session store: session_exists
session_exists(s) == s \in DOMAIN log

\* session store: add_message appends one turn to the end of the session's log
add_message(s, role, content) ==
    log' = [log EXCEPT ![s] = Append(@, Turn(role, content))]

\* the store right after the sessions in `started` were created
InitStore(started) ==
    /\ log = [s \in started |-> <<>>]
    /\ summary = [s \in started |-> None]
    /\ summarized_count = [s \in started |-> None]
    /\ last_compress = [s \in started |-> None]

InitLocals ==
    /\ pc = [p \in Procs |-> "idle"]
    /\ session_id = [p \in Procs |-> ""]
    /\ user_message = [p \in Procs |-> <<>>]
    /\ full_conversation = [p \in Procs |-> <<>>]
    /\ cached_summary = [p \in Procs |-> None]
    /\ cached_msg_count = [p \in Procs |-> None]
    /\ summary_text = [p \in Procs |-> None]
    /\ buffered_messages = [p \in Procs |-> <<>>]
    /\ similar_diaries = [p \in Procs |-> <<>>]
    /\ manual_context = [p \in Procs |-> None]
    /\ assistant_response = [p \in Procs |-> None]
    /\ outcome = [p \in Procs |-> NoOutcome]
    /\ calls = [p \in Procs |-> NoCalls]
    /\ appended = [p \in Procs |-> <<>>]
    /\ count_used = [p \in Procs |-> None]
    /\ raced = [p \in Procs |-> FALSE]
    /\ context = [p \in Procs |-> <<>>]

InitDiaryLocals ==
    /\ dpc = "idle"
    /\ diary_session = ""
    /\ transcript_turns = <<>>
    /\ cbt_data_str = None
    /\ pure_json_str = None
    /\ cbt_data = None
    /\ thought_texts = <<>>
    /\ final_alternative_perspective = <<>>
    /\ diary_result = NoDiaryResult
    /\ diary_calls = <<>>

\* several workers serve requests; one session has been started
Init ==
    /\ InitStore({"s1"})
    /\ InitLocals
    /\ InitDiaryLocals
    /\ blank_llm \in BOOLEAN
    /\ workers = Procs
    /\ vector_store = "none"

\* a single worker serves one request after the other; two sessions have been started
InitSeq ==
    /\ InitStore(Sessions)
    /\ InitLocals
    /\ InitDiaryLocals
    /\ blank_llm \in BOOLEAN
    /\ workers = {"w1"}
    /\ vector_store \in VectorStores


(* ---------------------------------------------------------------------- *)
(* process_message, step by step                                           *)
(* ---------------------------------------------------------------------- *)

callArgs == <<session_id, user_message>>

cacheReads == <<cached_summary, cached_msg_count>>

retrieved == <<similar_diaries, manual_context>>

observed == <<count_used, raced>>

\* positions between the load of the log and the return of _apply_summary_buffer_memory
CompressPcs == {"hget_summary", "hget_count", "summarize", "hset_summary", "hset_count"}

Raise(p, error) ==
    /\ pc' = [pc EXCEPT ![p] = "raised"]
    /\ outcome' = [outcome EXCEPT ![p] = [NoOutcome EXCEPT !.status = "raised",
                                                           !.error = error]]

\* mutant: the existence check is missing, every request goes on to load the log
CheckSession_NoCheck(p) ==
    /\ p \in workers
    /\ pc[p] = "idle"
    /\ \E s \in SessionIds, m \in UserMessages :
          /\ session_id' = [session_id EXCEPT ![p] = s]
          /\ user_message' = [user_message EXCEPT ![p] = m]
    /\ pc' = [pc EXCEPT ![p] = "load"]
    /\ UNCHANGED <<storeVars, envVars, diaryVars, context, full_conversation, cacheReads, summary_text,
                   buffered_messages, retrieved, assistant_response, outcome, calls,
                   appended, observed, last_compress>>

\* a request arrives; steps 1-2: session_exists, get_session_info
CheckSession(p) ==
    /\ p \in workers
    /\ pc[p] = "idle"
    /\ \E s \in SessionIds, m \in UserMessages :
          /\ session_id' = [session_id EXCEPT ![p] = s]
          /\ user_message' = [user_message EXCEPT ![p] = m]
          /\ IF ~session_exists(s)
             THEN Raise(p, "ValueError")
             ELSE /\ pc' = [pc EXCEPT ![p] = "load"]
                  /\ UNCHANGED outcome
    /\ UNCHANGED <<storeVars, envVars, diaryVars, context, full_conversation, cacheReads, summary_text,
                   buffered_messages, retrieved, assistant_response, calls,
                   appended, observed, last_compress>>

\* step 3: get_full_conversation, then _apply_summary_buffer_memory up to the
\* first access to the summary cache
LoadConversation(p) ==
    /\ pc[p] = "load"
    /\ LET conv == log[session_id[p]]
           busy == {q \in Procs \ {p} :
                        session_id[q] = session_id[p] /\ pc[q] \in CompressPcs}
       IN  /\ full_conversation' = [full_conversation EXCEPT ![p] = conv]
           /\ calls' = [calls EXCEPT ![p].load = @ + 1]
           /\ IF conv = <<>>
              THEN /\ buffered_messages' = [buffered_messages EXCEPT ![p] = <<>>]
                   /\ pc' = [pc EXCEPT ![p] = "search_diaries"]
                   /\ UNCHANGED raced
              ELSE IF OldMessages(conv) = <<>>
              THEN /\ buffered_messages' = [buffered_messages EXCEPT ![p] =
                          ConvertToLangchainMessages(RecentMessages(conv))]
                   /\ pc' = [pc EXCEPT ![p] = "search_diaries"]
                   /\ UNCHANGED raced
              ELSE /\ pc' = [pc EXCEPT ![p] = "hget_summary"]
                   /\ raced' = [r \in Procs |->
                                   IF busy # {} /\ r \in busy \cup {p}
                                   THEN TRUE ELSE raced[r]]
                   /\ UNCHANGED buffered_messages
    /\ UNCHANGED <<storeVars, envVars, diaryVars, context, callArgs, cacheReads, summary_text, retrieved,
                   assistant_response, outcome, appended, count_used, last_compress>>

\* cached_summary = redis.hget(summary_key, SUMMARY_REDIS_KEY)
ReadCachedSummary(p) ==
    /\ pc[p] = "hget_summary"
    /\ cached_summary' = [cached_summary EXCEPT ![p] = summary[session_id[p]]]
    /\ pc' = [pc EXCEPT ![p] = "hget_count"]
    /\ UNCHANGED <<storeVars, envVars, diaryVars, context, callArgs, full_conversation, cached_msg_count,
                   summary_text, buffered_messages, retrieved, assistant_response,
                   outcome, calls, appended, observed, last_compress>>

\* the value handed back by _apply_summary_buffer_memory when it returns a summary
ReturnBuffered(p, text, count) ==
    /\ summary_text' = [summary_text EXCEPT ![p] = Some(text)]
    /\ buffered_messages' = [buffered_messages EXCEPT ![p] =
           BufferedWithSummary(text, RecentMessages(full_conversation[p]))]
    /\ count_used' = [count_used EXCEPT ![p] = count]
    /\ pc' = [pc EXCEPT ![p] = "search_diaries"]

\* mutant: the cache is trusted whenever a summary is stored, whatever it covers
ReadCachedCount_IgnoresCount(p) ==
    /\ pc[p] = "hget_count"
    /\ LET count == summarized_count[session_id[p]]
       IN  /\ cached_msg_count' = [cached_msg_count EXCEPT ![p] = count]
           /\ IF ~Truthy(cached_summary[p])
              THEN /\ pc' = [pc EXCEPT ![p] = "summarize"]
                   /\ UNCHANGED <<summary_text, buffered_messages, count_used>>
              ELSE ReturnBuffered(p, cached_summary[p][1], count)
    /\ UNCHANGED <<storeVars, envVars, diaryVars, context, callArgs, full_conversation, cached_summary,
                   retrieved, assistant_response, outcome, calls, appended,
                   raced, last_compress>>

\* cached_msg_count = redis.hget(summary_key, "summarized_count"), and the
\* staleness test; on a fresh cache the cached summary is returned
ReadCachedCount(p) ==
    /\ pc[p] = "hget_count"
    /\ LET count == summarized_count[session_id[p]]
       IN  /\ cached_msg_count' = [cached_msg_count EXCEPT ![p] = count]
           /\ IF NeedsSummary(cached_summary[p], count,
                              Len(OldMessages(full_conversation[p])))
              THEN /\ pc' = [pc EXCEPT ![p] = "summarize"]
                   /\ UNCHANGED <<summary_text, buffered_messages, count_used>>
              ELSE ReturnBuffered(p, cached_summary[p][1], count)
    /\ UNCHANGED <<storeVars, envVars, diaryVars, context, callArgs, full_conversation, cached_summary,
                   retrieved, assistant_response, outcome, calls, appended,
                   raced, last_compress>>

\* summary_text = self._summarize_old_messages(old_messages); the model call may raise
SummarizeOldMessages(p) ==
    /\ pc[p] = "summarize"
    /\ calls' = [calls EXCEPT ![p].summarize = @ + 1]
    /\ \/ /\ summary_text' = [summary_text EXCEPT ![p] =
                 Some(LLMSummary(blank_llm,
                          ConversationText(OldMessages(full_conversation[p]))))]
          /\ pc' = [pc EXCEPT ![p] = "hset_summary"]
          /\ UNCHANGED outcome
       \/ /\ Raise(p, "GeneratorFailure")
          /\ UNCHANGED summary_text
    /\ UNCHANGED <<storeVars, envVars, diaryVars, context, callArgs, full_conversation, cacheReads,
                   buffered_messages, retrieved, assistant_response, appended,
                   observed, last_compress>>

\* variant of WriteSummary: the hash key does not carry the session id, every
\* session shares one summary field
WriteSummary_SharedKey(p) ==
    /\ pc[p] = "hset_summary"
    /\ summary' = [s \in DOMAIN summary |-> summary_text[p]]
    /\ calls' = [calls EXCEPT ![p].cache_write = @ + 1]
    /\ pc' = [pc EXCEPT ![p] = "hset_count"]
    /\ UNCHANGED <<log, summarized_count, envVars, diaryVars, context, callArgs, full_conversation,
                   cacheReads, summary_text, buffered_messages, retrieved,
                   assistant_response, outcome, appended, observed, last_compress>>

\* redis.hset(summary_key, SUMMARY_REDIS_KEY, summary_text)
WriteSummary(p) ==
    /\ pc[p] = "hset_summary"
    /\ summary' = [summary EXCEPT ![session_id[p]] = summary_text[p]]
    /\ calls' = [calls EXCEPT ![p].cache_write = @ + 1]
    /\ pc' = [pc EXCEPT ![p] = "hset_count"]
    /\ UNCHANGED <<log, summarized_count, envVars, diaryVars, context, callArgs, full_conversation,
                   cacheReads, summary_text, buffered_messages, retrieved,
                   assistant_response, outcome, appended, observed, last_compress>>

\* variant of WriteCount: the stored count also covers the two turns this request
\* is about to append
WriteCount_CountsOwnTurns(p) ==
    /\ pc[p] = "hset_count"
    /\ summarized_count' = [summarized_count EXCEPT ![session_id[p]] =
           Some(Len(OldMessages(full_conversation[p])) + 2)]
    /\ calls' = [calls EXCEPT ![p].cache_write = @ + 1]
    /\ ReturnBuffered(p, summary_text[p][1],
                      Some(Len(OldMessages(full_conversation[p]))))
    /\ UNCHANGED <<log, summary, envVars, diaryVars, context, callArgs, full_conversation, cacheReads,
                   retrieved, assistant_response, outcome, appended, raced,
                   last_compress>>

\* redis.hset(summary_key, "summarized_count", len(old_messages)), then the return
WriteCount(p) ==
    /\ pc[p] = "hset_count"
    /\ summarized_count' = [summarized_count EXCEPT ![session_id[p]] =
           Some(Len(OldMessages(full_conversation[p])))]
    /\ calls' = [calls EXCEPT ![p].cache_write = @ + 1]
    /\ ReturnBuffered(p, summary_text[p][1],
                      Some(Len(OldMessages(full_conversation[p]))))
    /\ UNCHANGED <<log, summary, envVars, diaryVars, context, callArgs, full_conversation, cacheReads,
                   retrieved, assistant_response, outcome, appended, raced,
                   last_compress>>

\* the worker process dies between the hset of the summary (478) and the hset of
\* the count (479): the count is never written, the request gets no answer, and
\* a fresh worker process, if one is left, takes over the following requests
Crash(p) ==
    /\ p \in workers
    /\ pc[p] = "hset_count"
    /\ pc' = [pc EXCEPT ![p] = "crashed"]
    /\ LET spare == {q \in Procs \ workers : pc[q] = "idle"}
       IN  workers' = (workers \ {p}) \cup
                          (IF spare = {} THEN {} ELSE {CHOOSE q \in spare : TRUE})
    /\ UNCHANGED <<storeVars, blank_llm, vector_store, diaryVars, context, callArgs,
                   full_conversation, cacheReads, summary_text, buffered_messages,
                   retrieved, assistant_response, outcome, calls, appended, observed,
                   last_compress>>

\* step 5: diary_service.search_similar_diaries(user_id, query, k=3); the call is
\* not guarded, a failure of the retriever leaves process_message as an exception
SearchDiaries(p) ==
    /\ pc[p] = "search_diaries"
    /\ calls' = [calls EXCEPT ![p].diary = @ + 1]
    /\ \/ /\ similar_diaries' = [similar_diaries EXCEPT ![p] =
                 SearchSimilarDiaries(Owner(session_id[p]), user_message[p], 3)]
          /\ pc' = [pc EXCEPT ![p] = "query_manual"]
          /\ UNCHANGED outcome
       \/ /\ Raise(p, "RetrievalFailure")
          /\ UNCHANGED similar_diaries
    /\ UNCHANGED <<storeVars, envVars, diaryVars, context, callArgs, full_conversation, cacheReads,
                   summary_text, buffered_messages, manual_context,
                   assistant_response, appended, observed, last_compress>>

\* mutant: the knowledge-base query is not guarded, its failure leaves
\* process_message as an exception
QueryManual_Unguarded(p) ==
    /\ pc[p] = "query_manual"
    /\ IF vector_store = "none"
       THEN /\ manual_context' = [manual_context EXCEPT ![p] = None]
            /\ pc' = [pc EXCEPT ![p] = "generate"]
            /\ UNCHANGED <<calls, outcome>>
       ELSE /\ calls' = [calls EXCEPT ![p].manual = @ + 1]
            /\ \/ /\ vector_store = "ready"
                  /\ \E answer \in ManualAnswers :
                        manual_context' = [manual_context EXCEPT ![p] = Some(answer)]
                  /\ pc' = [pc EXCEPT ![p] = "generate"]
                  /\ UNCHANGED outcome
               \/ /\ Raise(p, "RetrievalFailure")
                  /\ UNCHANGED manual_context
    /\ UNCHANGED <<storeVars, envVars, diaryVars, context, callArgs, full_conversation,
                   cacheReads, summary_text, buffered_messages, similar_diaries,
                   assistant_response, appended, observed, last_compress>>

\* step 6: the knowledge-base query inside try/except; query() raises when the
\* QA chain was never built, and the chain itself may fail
QueryManual(p) ==
    /\ pc[p] = "query_manual"
    /\ IF vector_store = "none"
       THEN /\ manual_context' = [manual_context EXCEPT ![p] = None]
            /\ UNCHANGED calls
       ELSE /\ calls' = [calls EXCEPT ![p].manual = @ + 1]
            /\ \/ /\ vector_store = "ready"
                  /\ \E answer \in ManualAnswers :
                        manual_context' = [manual_context EXCEPT ![p] = Some(answer)]
               \/ manual_context' = [manual_context EXCEPT ![p] = None]
    /\ pc' = [pc EXCEPT ![p] = "generate"]
    /\ UNCHANGED <<storeVars, envVars, diaryVars, context, callArgs, full_conversation, cacheReads,
                   summary_text, buffered_messages, similar_diaries,
                   assistant_response, outcome, appended, observed, last_compress>>

\* turns that calls in flight on session s have still to append
PendingAppends(s) ==
    LET owes(q) == IF session_id[q] = s /\ pc[q] = "add_user" THEN 2
                   ELSE IF session_id[q] = s /\ pc[q] = "add_assistant" THEN 1
                   ELSE 0
    IN  owes("w1") + owes("w2")

\* mutant: the user turn is saved before the model is called
GenerateResponse_SavesUserFirst(p) ==
    /\ pc[p] = "generate"
    /\ calls' = [calls EXCEPT ![p].generate = @ + 1]
    /\ add_message(session_id[p], "user", user_message[p])
    /\ context' = [context EXCEPT ![p] =
           BuildContextWithMemory(similar_diaries[p], buffered_messages[p],
                                  user_message[p], manual_context[p])]
    /\ \/ /\ Len(log[session_id[p]]) + PendingAppends(session_id[p]) + 2 <= MaxLog
          /\ \E reply \in Replies :
                assistant_response' = [assistant_response EXCEPT ![p] = Some(reply)]
          /\ pc' = [pc EXCEPT ![p] = "add_assistant"]
          /\ UNCHANGED outcome
       \/ /\ Raise(p, "GeneratorFailure")
          /\ UNCHANGED assistant_response
    /\ UNCHANGED <<summary, summarized_count, envVars, diaryVars, callArgs,
                   full_conversation, cacheReads, summary_text, buffered_messages,
                   retrieved, appended, observed, last_compress>>

\* mutant: a failed model call is swallowed and answered with an empty reply
GenerateResponse_SwallowsFailure(p) ==
    /\ pc[p] = "generate"
    /\ calls' = [calls EXCEPT ![p].generate = @ + 1]
    /\ context' = [context EXCEPT ![p] =
           BuildContextWithMemory(similar_diaries[p], buffered_messages[p],
                                  user_message[p], manual_context[p])]
    /\ Len(log[session_id[p]]) + PendingAppends(session_id[p]) + 2 <= MaxLog
    /\ \E reply \in Replies \cup {<<>>} :
          assistant_response' = [assistant_response EXCEPT ![p] = Some(reply)]
    /\ pc' = [pc EXCEPT ![p] = "add_user"]
    /\ UNCHANGED <<storeVars, envVars, diaryVars, callArgs, full_conversation,
                   cacheReads, summary_text, buffered_messages, retrieved, appended,
                   observed, last_compress, outcome>>

\* steps 7-8: _build_context_with_memory and _generate_response; the model call
\* may raise, and the exception leaves process_message
GenerateResponse(p) ==
    /\ pc[p] = "generate"
    /\ calls' = [calls EXCEPT ![p].generate = @ + 1]
    /\ context' = [context EXCEPT ![p] =
           BuildContextWithMemory(similar_diaries[p], buffered_messages[p],
                                  user_message[p], manual_context[p])]
    /\ \/ /\ Len(log[session_id[p]]) + PendingAppends(session_id[p]) + 2 <= MaxLog
          /\ \E reply \in Replies :
                assistant_response' = [assistant_response EXCEPT ![p] = Some(reply)]
          /\ pc' = [pc EXCEPT ![p] = "add_user"]
          /\ UNCHANGED outcome
       \/ /\ Raise(p, "GeneratorFailure")
          /\ UNCHANGED assistant_response
    /\ UNCHANGED <<storeVars, envVars, diaryVars, callArgs, full_conversation,
                   cacheReads, summary_text, buffered_messages, retrieved, appended,
                   observed, last_compress>>

\* mutant: the user turn is not saved, only the reply is
AddUserMessage_Skipped(p) ==
    /\ pc[p] = "add_user"
    /\ pc' = [pc EXCEPT ![p] = "add_assistant"]
    /\ UNCHANGED <<storeVars, envVars, diaryVars, context, callArgs, full_conversation, cacheReads,
                   summary_text, buffered_messages, retrieved, assistant_response,
                   outcome, calls, appended, observed, last_compress>>

\* step 9, first half: add_message(session_id, "user", user_message)
AddUserMessage(p) ==
    /\ pc[p] = "add_user"
    /\ add_message(session_id[p], "user", user_message[p])
    /\ appended' = [appended EXCEPT ![p] = Append(@, Turn("user", user_message[p]))]
    /\ pc' = [pc EXCEPT ![p] = "add_assistant"]
    /\ UNCHANGED <<summary, summarized_count, envVars, diaryVars, context, callArgs, full_conversation,
                   cacheReads, summary_text, buffered_messages, retrieved,
                   assistant_response, outcome, calls, observed, last_compress>>

\* variant of AddAssistantMessage: the append also drops the session's cached
\* summary and count
AddAssistantMessage_InvalidatesCache(p) ==
    /\ pc[p] = "add_assistant"
    /\ add_message(session_id[p], "assistant", assistant_response[p][1])
    /\ summary' = [summary EXCEPT ![session_id[p]] = None]
    /\ summarized_count' = [summarized_count EXCEPT ![session_id[p]] = None]
    /\ appended' = [appended EXCEPT ![p] =
           Append(@, Turn("assistant", assistant_response[p][1]))]
    /\ outcome' = [outcome EXCEPT ![p] =
           [status |-> "returned", error |-> "",
            answer |-> assistant_response[p][1],
            dates |-> DiaryDates(similar_diaries[p])]]
    /\ pc' = [pc EXCEPT ![p] = "returned"]
    /\ UNCHANGED <<envVars, diaryVars, context, callArgs, full_conversation,
                   cacheReads, summary_text, buffered_messages, retrieved,
                   assistant_response, calls, observed, last_compress>>

\* step 9, second half: add_message(session_id, "assistant", assistant_response),
\* and the returned dictionary
AddAssistantMessage(p) ==
    /\ pc[p] = "add_assistant"
    /\ add_message(session_id[p], "assistant", assistant_response[p][1])
    /\ appended' = [appended EXCEPT ![p] =
           Append(@, Turn("assistant", assistant_response[p][1]))]
    /\ outcome' = [outcome EXCEPT ![p] =
           [status |-> "returned", error |-> "",
            answer |-> assistant_response[p][1],
            dates |-> DiaryDates(similar_diaries[p])]]
    /\ pc' = [pc EXCEPT ![p] = "returned"]
    /\ UNCHANGED <<summary, summarized_count, envVars, diaryVars, context, callArgs, full_conversation,
                   cacheReads, summary_text, buffered_messages, retrieved,
                   assistant_response, calls, observed, last_compress>>

\* the caller has received the result or the exception; the handler is free again
Finish(p) ==
    /\ pc[p] \in {"returned", "raised"}
    /\ pc' = [pc EXCEPT ![p] = "idle"]
    /\ session_id' = [session_id EXCEPT ![p] = ""]
    /\ user_message' = [user_message EXCEPT ![p] = <<>>]
    /\ full_conversation' = [full_conversation EXCEPT ![p] = <<>>]
    /\ cached_summary' = [cached_summary EXCEPT ![p] = None]
    /\ cached_msg_count' = [cached_msg_count EXCEPT ![p] = None]
    /\ summary_text' = [summary_text EXCEPT ![p] = None]
    /\ buffered_messages' = [buffered_messages EXCEPT ![p] = <<>>]
    /\ similar_diaries' = [similar_diaries EXCEPT ![p] = <<>>]
    /\ manual_context' = [manual_context EXCEPT ![p] = None]
    /\ assistant_response' = [assistant_response EXCEPT ![p] = None]
    /\ outcome' = [outcome EXCEPT ![p] = NoOutcome]
    /\ calls' = [calls EXCEPT ![p] = NoCalls]
    /\ appended' = [appended EXCEPT ![p] = <<>>]
    /\ count_used' = [count_used EXCEPT ![p] = None]
    /\ raced' = [raced EXCEPT ![p] = FALSE]
    /\ context' = [context EXCEPT ![p] = <<>>]
    /\ IF Cardinality(workers) = 1 /\ summary_text[p] # None
       THEN last_compress' = [last_compress EXCEPT ![session_id[p]] =
                Some([conv |-> full_conversation[p], text |-> summary_text[p][1],
                      wrote |-> calls[p].cache_write > 0])]
       ELSE UNCHANGED last_compress
    /\ UNCHANGED <<storeVars, envVars, diaryVars>>

Next ==
    \E p \in Procs :
        \/ CheckSession(p)
        \/ LoadConversation(p)
        \/ ReadCachedSummary(p)
        \/ ReadCachedCount(p)
        \/ SummarizeOldMessages(p)
        \/ WriteSummary(p)
        \/ WriteCount(p)
        \/ SearchDiaries(p)
        \/ QueryManual(p)
        \/ GenerateResponse(p)
        \/ AddUserMessage(p)
        \/ AddAssistantMessage(p)
        \/ Finish(p)

Spec == Init /\ [][Next]_vars

SpecSeq == InitSeq /\ [][Next]_vars

(* ---------------------------------------------------------------------- *)
(* summarize_conversation_to_diary, step by step                           *)
(* ---------------------------------------------------------------------- *)

procVars == <<storeVars, envVars, localVars, last_compress, context>>

extracted == <<cbt_data_str, pure_json_str, cbt_data, thought_texts>>

\* replies of chain_gen_perspective and chain_create_diary
Perspectives == {<<"p">>}

Diaries == {<<"d">>}

\* the dictionary handed back to the caller
DiaryReturn(diary_text, alternative_perspective) ==
    /\ diary_result' = [status |-> "returned", diary_text |-> diary_text,
                        alternative_perspective |-> alternative_perspective]
    /\ dpc' = "returned"

\* mutant: there is no outer handler, the exception leaves the method
CaughtUnexpected_Reraises(error) ==
    /\ diary_result' = [NoDiaryResult EXCEPT !.status = "raised"]
    /\ dpc' = "raised"

\* except Exception as e (678-684): the fixed text and a message carrying str(e)
CaughtUnexpected(error) ==
    DiaryReturn(<<UNKNOWN_ERROR_TEXT>>, <<"unexpected error: ", error>>)

\* 633-639: nothing recovered from the stage-1 output
ExtractFailed(raw) ==
    DiaryReturn(<<EXTRACT_FAILED_TEXT>>, <<"no CBT data in response (response: ">>
                                            \o raw \o <<")">>)

\* mutant: the diagnostic of a format error quotes nothing
FormatFailed_NoContent(span) ==
    DiaryReturn(<<FORMAT_FAILED_TEXT>>, <<"CBT data has a wrong format">>)

\* 644-650: the recovered span is not JSON
FormatFailed(span) ==
    DiaryReturn(<<FORMAT_FAILED_TEXT>>, <<"CBT data has a wrong format (content: ">>
                                           \o span \o <<")">>)

\* mutant: the empty log is not told apart, the transcript goes to stage 1
DiaryLoad_NoEmptyCheck ==
    /\ dpc = "idle"
    /\ \E s \in DOMAIN log :
          /\ diary_session' = s
          /\ transcript_turns' = log[s]
          /\ dpc' = "extract"
          /\ UNCHANGED diary_result
    /\ UNCHANGED <<procVars, extracted, final_alternative_perspective, diary_calls>>

\* a diary request arrives; get_full_conversation and the empty-log return
DiaryLoad ==
    /\ dpc = "idle"
    /\ \E s \in DOMAIN log :
          /\ diary_session' = s
          /\ transcript_turns' = log[s]
          /\ IF log[s] = <<>>
             THEN DiaryReturn(<<NO_CONTENT_TEXT>>, <<>>)
             ELSE /\ dpc' = "extract"
                  /\ UNCHANGED diary_result
    /\ UNCHANGED <<procVars, extracted, final_alternative_perspective, diary_calls>>

\* 652-662: the thoughts of the parsed record and the choice of the next stage
AfterLoads(raw, span, loaded) ==
    /\ cbt_data_str' = Some(raw)
    /\ pure_json_str' = Some(span)
    /\ cbt_data' = Some(loaded)
    /\ LET thoughts_list == DictGet(loaded, "thoughts", JList(<<>>))
       IN  IF ~Iterable(thoughts_list)
           THEN /\ CaughtUnexpected("TypeError")
                /\ UNCHANGED thought_texts
           ELSE /\ thought_texts' = ThoughtTexts(IterItems(thoughts_list))
                /\ dpc' = IF ThoughtTexts(IterItems(thoughts_list)) # <<>>
                          THEN "gen_perspective" ELSE "create_diary"
                /\ UNCHANGED diary_result

\* 631-650: recovery of the JSON span and json.loads
ParseStage1(raw) ==
    LET recovered == ExtractJsonFromMarkdown(raw)
    IN  IF ~Truthy(recovered)
        THEN /\ ExtractFailed(raw)
             /\ cbt_data_str' = Some(raw)
             /\ pure_json_str' = recovered
             /\ UNCHANGED <<cbt_data, thought_texts>>
        ELSE IF JsonLoads(recovered[1]) = None
        THEN /\ FormatFailed(recovered[1])
             /\ cbt_data_str' = Some(raw)
             /\ pure_json_str' = recovered
             /\ UNCHANGED <<cbt_data, thought_texts>>
        ELSE AfterLoads(raw, recovered[1], JsonLoads(recovered[1])[1])

\* stage 1: chain_extract_cbt.invoke, then everything up to the next model call
ExtractCbtFrom(outputs) ==
    /\ dpc = "extract"
    /\ diary_calls' = Append(diary_calls, "extract")
    /\ \/ \E raw \in outputs : ParseStage1(raw)
       \/ /\ CaughtUnexpected("GeneratorFailure")
          /\ UNCHANGED extracted
    /\ UNCHANGED <<procVars, diary_session, transcript_turns,
                   final_alternative_perspective>>

\* stage 1 with any of the outputs of the model
ExtractCbt == ExtractCbtFrom(Stage1Outputs)

\* stage 2: chain_gen_perspective.invoke on the joined thought texts
GenPerspective ==
    /\ dpc = "gen_perspective"
    /\ diary_calls' = Append(diary_calls, "reinterpret")
    /\ \/ /\ \E text \in Perspectives : final_alternative_perspective' = text
          /\ dpc' = "create_diary"
          /\ UNCHANGED diary_result
       \/ /\ CaughtUnexpected("GeneratorFailure")
          /\ UNCHANGED final_alternative_perspective
    /\ UNCHANGED <<procVars, diary_session, transcript_turns, extracted>>

\* stage 3: chain_create_diary.invoke on the serialised record, and the result
CreateDiary ==
    /\ dpc = "create_diary"
    /\ diary_calls' = Append(diary_calls, "generate-diary")
    /\ \/ \E text \in Diaries : DiaryReturn(text, final_alternative_perspective)
       \/ CaughtUnexpected("GeneratorFailure")
    /\ UNCHANGED <<procVars, diary_session, transcript_turns, extracted,
                   final_alternative_perspective>>

\* the caller has received the result; the handler is free again
DiaryFinish ==
    /\ dpc \in {"returned", "raised"}
    /\ dpc' = "idle"
    /\ diary_session' = ""
    /\ transcript_turns' = <<>>
    /\ cbt_data_str' = None
    /\ pure_json_str' = None
    /\ cbt_data' = None
    /\ thought_texts' = <<>>
    /\ final_alternative_perspective' = <<>>
    /\ diary_result' = NoDiaryResult
    /\ diary_calls' = <<>>
    /\ UNCHANGED procVars

\* one worker serves chat requests, one serves diary requests
InitDiary ==
    /\ InitStore({"s1"})
    /\ InitLocals
    /\ InitDiaryLocals
    /\ blank_llm = FALSE
    /\ workers = {"w1"}
    /\ vector_store = "none"

NextDiary ==
    \/ Next
    \/ DiaryLoad
    \/ ExtractCbt
    \/ GenPerspective
    \/ CreateDiary
    \/ DiaryFinish

SpecDiary == InitDiary /\ [][NextDiary]_vars

\* one worker serves one request after the other on one session and may die
\* between the two cache writes; a second worker then takes over
InitCrash ==
    /\ InitStore({"s1"})
    /\ InitLocals
    /\ InitDiaryLocals
    /\ blank_llm = FALSE
    /\ workers = {"w1"}
    /\ vector_store = "none"

NextCrash ==
    \/ Next
    \/ \E p \in Procs : Crash(p)

SpecCrash == InitCrash /\ [][NextCrash]_vars

\* two workers behind a router with session affinity: the requests for session
\* s1 go to w1 and carry the long message, those for s2 go to w2 and carry the
\* short one
Route(p) == IF p = "w1" THEN "s1" ELSE "s2"

RouteMessage(p) == IF p = "w1" THEN <<"B">> ELSE <<"a">>

RoutedCheckSession(p) ==
    /\ CheckSession(p)
    /\ session_id'[p] = Route(p)
    /\ user_message'[p] = RouteMessage(p)

\* the stage-1 output of a model that answers with the bare record
BareRecord == Wrap("bare", <<"{", "situation:s", ",", "thoughts:[t]", "}">>)

\* both sessions have been started; the two workers serve one session each
\* while diary requests arrive for either session
InitIso ==
    /\ InitStore(Sessions)
    /\ InitLocals
    /\ InitDiaryLocals
    /\ blank_llm = FALSE
    /\ workers = Procs
    /\ vector_store = "none"

NextIso ==
    \/ \E p \in Procs :
          \/ RoutedCheckSession(p)
          \/ LoadConversation(p)
          \/ ReadCachedSummary(p)
          \/ ReadCachedCount(p)
          \/ SummarizeOldMessages(p)
          \/ WriteSummary(p)
          \/ WriteCount(p)
          \/ SearchDiaries(p)
          \/ QueryManual(p)
          \/ GenerateResponse(p)
          \/ AddUserMessage(p)
          \/ AddAssistantMessage(p)
          \/ Finish(p)
    \/ DiaryLoad
    \/ ExtractCbtFrom({BareRecord})
    \/ GenPerspective
    \/ CreateDiary
    \/ DiaryFinish

SpecIso == InitIso /\ [][NextIso]_vars

TypeOK ==
    /\ \A s \in DOMAIN log : Len(log[s]) <= MaxLog
    /\ \A p \in Procs : pc[p] \in {"idle", "load", "hget_summary", "hget_count",
                                   "summarize", "hset_summary", "hset_count",
                                   "search_diaries", "query_manual", "generate",
                                   "add_user", "add_assistant", "returned", "raised",
                                   "crashed"}


(* ---------------------------------------------------------------------- *)
(* Properties                                                              *)
(* ---------------------------------------------------------------------- *)

\* the call of worker p has got the value of _apply_summary_buffer_memory back
CompressReturned(p) ==
    \/ pc[p] \in {"search_diaries", "query_manual", "generate", "add_user",
                  "add_assistant", "returned"}
    \/ pc[p] = "raised" /\ calls[p].diary > 0

\* total estimated token cost of a log
RECURSIVE LogTokens(_)
LogTokens(conv) ==
    IF conv = <<>> THEN 0
    ELSE TokenCount(Head(conv).content) + LogTokens(Tail(conv))

\* the turns of a log as role-tagged messages, one per turn
Verbatim(conv) ==
    [i \in 1..Len(conv) |->
        [type |-> IF conv[i].role = "user" THEN "human" ELSE "ai",
         content |-> conv[i].content]]

\* s is a subsequence position pair: turn u at i, turn v at j, i < j, both after `from`
HasInOrder(seq, from, u, v) ==
    \E i, j \in (from + 1)..Len(seq) : i < j /\ seq[i] = u /\ seq[j] = v

\* C1: a process call that succeeds has appended exactly two turns to its
\* session's log, both after its single reply-generation call: first the user
\* turn with the incoming message, then the assistant turn with the reply it
\* returns; when the log it loaded was empty it made no summarization call.
C1_ProcessAppendsUserThenAssistant ==
    \A p \in Procs :
        /\ appended[p] # <<>> =>
              /\ calls[p].generate = 1
              /\ assistant_response[p] # None
        /\ outcome[p].status = "returned" =>
              LET u == Turn("user", user_message[p])
                  v == Turn("assistant", outcome[p].answer)
              IN  /\ appended[p] = <<u, v>>
                  /\ outcome[p].answer = assistant_response[p][1]
                  /\ HasInOrder(log[session_id[p]], Len(full_conversation[p]), u, v)
                  /\ calls[p].generate = 1
                  /\ full_conversation[p] = <<>> => calls[p].summarize = 0

\* C1 witness: a call on an empty log has returned and the log holds its two turns
C1_Witness ==
    \E p \in Procs :
        /\ outcome[p].status = "returned"
        /\ full_conversation[p] = <<>>
        /\ log[session_id[p]] = <<Turn("user", user_message[p]),
                                  Turn("assistant", outcome[p].answer)>>

\* C2: a call whose reply generation fails ends with the failure raised to the
\* caller, and no step of the call up to and including the failed generation
\* changes any log (the log is changed only by the two appends, which come
\* after a successful generation and cannot raise).
C2_FailedGenerationLeavesLog ==
    [][\A p \in Procs :
          /\ (pc[p] # pc'[p] /\ pc[p] \notin {"add_user", "add_assistant"})
                => log' = log
          /\ (pc[p] = "generate" /\ pc'[p] \notin {"generate", "add_user"})
                => /\ pc'[p] = "raised"
                   /\ outcome'[p].status = "raised"
                   /\ outcome'[p].error = "GeneratorFailure"
                   /\ appended'[p] = <<>>
          /\ pc'[p] = "raised" => pc[p] \notin {"add_user", "add_assistant"}]_vars

\* C2 witness: a reply generation has failed on a non-empty log, which is intact
C2_Witness ==
    \E p \in Procs :
        /\ pc[p] = "raised"
        /\ outcome[p].error = "GeneratorFailure"
        /\ calls[p].generate = 1
        /\ full_conversation[p] # <<>>
        /\ log[session_id[p]] = full_conversation[p]

\* C3: for a loaded log whose total token cost is within the budget, compress
\* returns one role-tagged message per turn, in order and unchanged, no summary
\* message, makes no summarization call and no cache write; for an empty log it
\* returns the empty sequence.
C3_WithinBudgetVerbatim ==
    \A p \in Procs :
        (CompressReturned(p) /\ LogTokens(full_conversation[p]) <= MAX_TOKEN_LIMIT) =>
            /\ IF full_conversation[p] = <<>>
               THEN buffered_messages[p] = <<>>
               ELSE buffered_messages[p] = Verbatim(full_conversation[p])
            /\ calls[p].summarize = 0
            /\ calls[p].cache_write = 0
            /\ summary_text[p] = None

\* C3 witness: compress has returned for a non-empty log within the budget
C3_Witness ==
    \E p \in Procs :
        /\ CompressReturned(p)
        /\ Len(full_conversation[p]) >= 2
        /\ LogTokens(full_conversation[p]) <= MAX_TOKEN_LIMIT
        /\ Len(buffered_messages[p]) = Len(full_conversation[p])


\* the recent turns in the value compress returned to worker p (the messages
\* after the summary message, when there is one)
ReturnedRecent(p) ==
    IF summary_text[p] = None THEN buffered_messages[p] ELSE Tail(buffered_messages[p])

\* C4: for a loaded log over the budget, once compress has returned, the first
\* summarized_count turns (the count that goes with the returned summary)
\* followed by the returned recent turns are exactly the log.
C4_CountedPrefixPlusRecentIsLog ==
    \A p \in Procs :
        (CompressReturned(p) /\ LogTokens(full_conversation[p]) > MAX_TOKEN_LIMIT) =>
            /\ count_used[p] # None
            /\ LET k == count_used[p][1]
                   n == Len(full_conversation[p])
               IN  /\ k + Len(ReturnedRecent(p)) = n
                   /\ ReturnedRecent(p) = Verbatim(SubSeq(full_conversation[p], k + 1, n))

Decided(p) ==
    \/ pc[p] \in {"summarize", "hset_summary", "hset_count"}
    \/ CompressReturned(p) /\ summary_text[p] # None
    \/ pc[p] = "raised" /\ calls[p].summarize > 0

Recomputes(p) ==
    pc[p] \in {"summarize", "hset_summary", "hset_count"} \/ calls[p].summarize > 0

\* C6 as claimed: with old turns present, compress recomputes if and only if no cached
\* summary exists or the count it read is strictly less than the number of old
\* turns; otherwise it makes no summarization call and returns the cached text.
C6_RecomputeIffStale ==
    \A p \in Procs :
        Decided(p) =>
            /\ Recomputes(p) <=>
                  \/ cached_summary[p] = None
                  \/ /\ cached_msg_count[p] # None
                     /\ cached_msg_count[p][1] < Len(OldMessages(full_conversation[p]))
            /\ (~Recomputes(p)) =>
                  /\ calls[p].summarize = 0
                  /\ summary_text[p] = cached_summary[p]
                  /\ Head(buffered_messages[p]) =
                        SystemMessage(<<SUMMARY_LABEL, "\n">> \o cached_summary[p][1])

\* C6 amended: with old turns present, compress recomputes if and only if the
\* cached summary it read is missing or empty, or the count it read is present
\* and strictly less than the number of old turns; otherwise it makes no
\* summarization call and returns the cached text verbatim.
C6_RecomputeIffMissingEmptyOrStale ==
    \A p \in Procs :
        Decided(p) =>
            /\ Recomputes(p) <=>
                  \/ cached_summary[p] = None
                  \/ cached_summary[p] = Some(<<>>)
                  \/ /\ cached_msg_count[p] # None
                     /\ cached_msg_count[p][1] < Len(OldMessages(full_conversation[p]))
            /\ (~Recomputes(p)) =>
                  /\ calls[p].summarize = 0
                  /\ calls[p].cache_write = 0
                  /\ summary_text[p] = cached_summary[p]
                  /\ Head(buffered_messages[p]) =
                        SystemMessage(<<SUMMARY_LABEL, "\n">> \o cached_summary[p][1])

\* C6 witness: a call found a non-empty cached summary whose count is smaller
\* than its number of old turns, and recomputed
C6_Witness ==
    \E p \in Procs :
        /\ Decided(p)
        /\ CompressReturned(p)
        /\ calls[p].summarize = 1
        /\ cached_summary[p] # None
        /\ cached_summary[p] # Some(<<>>)
        /\ cached_msg_count[p] # None
        /\ cached_msg_count[p][1] < Len(OldMessages(full_conversation[p]))

\* C7 as claimed: for every non-empty log compress returns at least one recent turn.
C7_AlwaysOneRecent ==
    \A p \in Procs :
        (CompressReturned(p) /\ full_conversation[p] # <<>>) =>
            Len(ReturnedRecent(p)) >= 1

\* C7 amended: for a non-empty log compress returns at least one recent turn (the
\* newest turn being the last of them) exactly when the newest turn's own token
\* cost is within the budget; a newest turn that alone exceeds the budget is not
\* returned: the recent set is empty and the value is the summary message alone.
C7_RecentEmptyIffNewestOverBudget ==
    \A p \in Procs :
        (CompressReturned(p) /\ full_conversation[p] # <<>>) =>
            LET conv   == full_conversation[p]
                newest == conv[Len(conv)]
                recent == ReturnedRecent(p)
            IN  IF TokenCount(newest.content) <= MAX_TOKEN_LIMIT
                THEN /\ Len(recent) >= 1
                     /\ recent[Len(recent)] = Verbatim(<<newest>>)[1]
                ELSE /\ recent = <<>>
                     /\ summary_text[p] # None
                     /\ Len(buffered_messages[p]) = 1
                     /\ buffered_messages[p][1].type = "system"

\* C7 witness: compress has returned for a log whose newest turn alone exceeds
\* the budget, and the value holds no recent turn
C7_Witness ==
    \E p \in Procs :
        /\ CompressReturned(p)
        /\ full_conversation[p] # <<>>
        /\ TokenCount(full_conversation[p][Len(full_conversation[p])].content)
               > MAX_TOKEN_LIMIT
        /\ ReturnedRecent(p) = <<>>

\* C8: whenever no compress call is between its two cache writes, a cached
\* summary comes with a count greater than 0 and is the summary of exactly the
\* first count turns of the session's log.
C8_CacheConsistent ==
    (\A p \in Procs : pc[p] # "hset_count") =>
        \A s \in DOMAIN log :
            summary[s] # None =>
                /\ summarized_count[s] # None
                /\ summarized_count[s][1] > 0
                /\ summarized_count[s][1] <= Len(log[s])
                /\ summary[s][1] = LLMSummary(blank_llm,
                       ConversationText(SubSeq(log[s], 1, summarized_count[s][1])))

\* C9: two compress calls that ran concurrently on the same session over the
\* same log both return the same summary text, and leave the cache holding the
\* summary of the old-turn prefix with the count equal to the prefix length.
C9_ConcurrentSameLogAgree ==
    \A p, q \in Procs :
        (/\ p # q
         /\ raced[p] /\ raced[q]
         /\ session_id[p] = session_id[q]
         /\ full_conversation[p] = full_conversation[q]
         /\ CompressReturned(p) /\ CompressReturned(q)
         /\ summary_text[p] # None /\ summary_text[q] # None) =>
            LET old == OldMessages(full_conversation[p])
                s   == session_id[p]
            IN  /\ summary_text[p] = summary_text[q]
                /\ summary[s] = Some(LLMSummary(blank_llm, ConversationText(old)))
                /\ summarized_count[s] = Some(Len(old))

\* C10: a request for a session that does not exist ends at the existence check
\* with the ValueError raised: nothing was loaded, no retrieval, summarization or
\* generation call was made, and the step changes no log and no cache field.
C10_UnknownSessionFailsFirst ==
    [][\A p \in Procs :
          (pc[p] = "idle" /\ pc'[p] # "idle" /\ session_id'[p] \notin DOMAIN log) =>
              /\ pc'[p] = "raised"
              /\ outcome'[p].status = "raised"
              /\ outcome'[p].error = "ValueError"
              /\ calls'[p] = NoCalls
              /\ full_conversation'[p] = <<>>
              /\ appended'[p] = <<>>
              /\ <<log, summary, summarized_count>>' = <<log, summary, summarized_count>>]_vars

\* C10 witness: a request for the unknown session has been refused while the
\* stored session already holds turns and a cached summary
C10_Witness ==
    \E p \in Procs :
        /\ pc[p] = "raised"
        /\ outcome[p].error = "ValueError"
        /\ session_id[p] \notin DOMAIN log
        /\ \E s \in DOMAIN log : log[s] # <<>> /\ summary[s] # None

\* the atoms of the content of a message
Atoms(content) == {content[i] : i \in 1..Len(content)}

\* the call of worker p is past the knowledge-base step
PastManual(p) == pc[p] \in {"generate", "add_user", "add_assistant", "returned"}

\* the call of worker p has assembled its context
Assembled(p) == context[p] # <<>>

\* C11: a failure of the knowledge-base retriever (a configured but
\* uninitialised one included) never ends the request: the call goes on with no
\* knowledge snippet, no knowledge block is in its context, and a call that
\* returns has generated a reply and appended two turns; with no retriever
\* configured no knowledge-base query is made.
C11_ManualFailureCaught ==
    \A p \in Procs :
        /\ (pc[p] = "raised") => ~(calls[p].manual > 0 /\ calls[p].generate = 0)
        /\ PastManual(p) =>
              /\ (vector_store = "none") =>
                    calls[p].manual = 0 /\ manual_context[p] = None
              /\ (vector_store = "uninitialised") =>
                    calls[p].manual = 1 /\ manual_context[p] = None
        /\ (Assembled(p) /\ manual_context[p] = None) =>
              /\ context[p][1].content \in {<<SYSTEM_PROMPT>>}
                     \cup {<<SYSTEM_PROMPT, "\n", DIARY_LABEL>>
                              \o DiaryLines(similar_diaries[p], 1)}
              /\ KNOWLEDGE_LABEL \notin Atoms(context[p][1].content)
        /\ (pc[p] = "returned") =>
              /\ calls[p].generate = 1
              /\ Len(appended[p]) = 2

\* C11 witness: a request served with a configured but uninitialised retriever
\* has returned after its one failed knowledge-base query
C11_Witness ==
    \E p \in Procs :
        /\ pc[p] = "returned"
        /\ vector_store = "uninitialised"
        /\ calls[p].manual = 1
        /\ manual_context[p] = None
        /\ Len(appended[p]) = 2

\* C12: a failure of the diary retriever never ends the request: no call is
\* left by an exception right after its diary search.
C12_DiaryFailureCaught ==
    \A p \in Procs :
        (pc[p] = "raised") =>
            ~(/\ calls[p].diary = 1
              /\ calls[p].manual = 0
              /\ calls[p].generate = 0
              /\ outcome[p].error = "RetrievalFailure")

\* the diary call has handed a result to its caller
DiaryReturned == dpc = "returned" /\ diary_result.status = "returned"

\* the stage-1 model answered, but no record came out of its answer
Unparsable == DiaryReturned /\ cbt_data_str # None /\ cbt_data = None

\* part occurs in text as a contiguous run of atoms
Contains(text, part) ==
    \E i \in 1..(Len(text) - Len(part) + 1) : SubSeq(text, i, i + Len(part) - 1) = part

\* C13: generate_diary never leaves by an exception and every result it hands
\* back is a record of exactly the two texts diary_text and
\* alternative_perspective, whatever the stage-1 model answered.
C13_DiaryAlwaysReturnsResult ==
    /\ dpc # "raised"
    /\ diary_result.status # "raised"
    /\ DOMAIN diary_result = {"status", "diary_text", "alternative_perspective"}
    /\ (dpc = "returned") =>
          /\ diary_result.status = "returned"
          /\ diary_result.diary_text # <<>>
    /\ (cbt_data_str # None) =>
          dpc \in {"gen_perspective", "create_diary", "returned"}

\* C13 witness: the stage-1 output was valid JSON whose thoughts member is null;
\* the loop over it failed and the call still returned a result
C13_Witness ==
    /\ DiaryReturned
    /\ cbt_data # None
    /\ ~Iterable(DictGet(cbt_data[1], "thoughts", JList(<<>>)))
    /\ diary_result.diary_text = <<UNKNOWN_ERROR_TEXT>>
    /\ diary_calls = <<"extract">>

\* what C14 says of process: a call that goes on after a model call holds the
\* text the model produced, and a failed model call ends it with nothing appended
ProcessModelFailurePropagates ==
    \A p \in Procs :
        /\ (pc[p] \in {"hset_summary", "hset_count"}) => summary_text[p] # None
        /\ (pc[p] \in {"add_user", "add_assistant", "returned"}) =>
              assistant_response[p] \in {Some(reply) : reply \in Replies}
        /\ (outcome[p].error = "GeneratorFailure") =>
              pc[p] = "raised" /\ appended[p] = <<>>

\* C14 as claimed: no model failure is turned into a result, in process and in
\* generate_diary alike.
C14_ModelFailurePropagates ==
    /\ ProcessModelFailurePropagates
    /\ DiaryReturned =>
          "GeneratorFailure" \notin Atoms(diary_result.alternative_perspective)

\* C14 amended: a failed summarize or chat-reply call leaves process as an
\* exception; a failed extract, reinterpret or generate-diary call is caught in
\* generate_diary, which returns the fixed unknown-error text with a message
\* that carries the error, and makes no further model call.
C14_ProcessPropagatesDiaryCatches ==
    /\ ProcessModelFailurePropagates
    /\ dpc # "raised"
    /\ (DiaryReturned
          /\ "GeneratorFailure" \in Atoms(diary_result.alternative_perspective)) =>
          /\ diary_result.diary_text = <<UNKNOWN_ERROR_TEXT>>
          /\ diary_result.alternative_perspective =
                <<"unexpected error: ", "GeneratorFailure">>
          /\ diary_calls \in {<<"extract">>, <<"extract", "reinterpret">>,
                              <<"extract", "generate-diary">>,
                              <<"extract", "reinterpret", "generate-diary">>}
    /\ (DiaryReturned /\ diary_result.diary_text \in Diaries) =>
          /\ diary_calls[Len(diary_calls)] = "generate-diary"
          /\ "GeneratorFailure" \notin Atoms(diary_result.alternative_perspective)

\* C14 witness: the reinterpret call failed and generate_diary returned a result
C14_Witness ==
    /\ DiaryReturned
    /\ diary_calls = <<"extract", "reinterpret">>
    /\ diary_result.alternative_perspective = <<"unexpected error: ", "GeneratorFailure">>

\* C15: generate_diary on a log without turns returns the fixed no-content
\* result and invokes no model; no stage of the pipeline ever runs on an empty
\* log.
C15_EmptyLogNoContent ==
    /\ (dpc = "returned" /\ transcript_turns = <<>>) =>
          /\ diary_result = [status |-> "returned", diary_text |-> <<NO_CONTENT_TEXT>>,
                             alternative_perspective |-> <<>>]
          /\ diary_calls = <<>>
    /\ (dpc \in {"extract", "gen_perspective", "create_diary"}) =>
          transcript_turns # <<>>
    /\ (diary_calls # <<>>) => transcript_turns # <<>>

\* C15 witness: a diary request on the still empty session s1 has returned
C15_Witness ==
    /\ dpc = "returned"
    /\ diary_session = "s1"
    /\ transcript_turns = <<>>
    /\ log["s1"] = <<>>

\* C16 as claimed: an unparsable stage-1 output gives a fixed failure text, a
\* diagnostic that contains the raw stage-1 output, and no further model call.
C16_UnparsableQuotesRawOutput ==
    Unparsable =>
        /\ diary_result.diary_text \in {<<EXTRACT_FAILED_TEXT>>, <<FORMAT_FAILED_TEXT>>}
        /\ Contains(diary_result.alternative_perspective, cbt_data_str[1])
        /\ diary_calls = <<"extract">>

\* C16 amended: when no span is recovered the result is the extraction-failure
\* text with a diagnostic that contains the raw stage-1 output; when the
\* recovered span is not valid JSON the result is the format-failure text with
\* a diagnostic that contains the recovered span (not what surrounds it); in
\* both cases neither the reinterpret nor the generate-diary call is made.
C16_UnparsableQuotesRawOrSpan ==
    Unparsable =>
        /\ diary_calls = <<"extract">>
        /\ IF pure_json_str = None
           THEN /\ ExtractJsonFromMarkdown(cbt_data_str[1]) = None
                /\ diary_result.diary_text = <<EXTRACT_FAILED_TEXT>>
                /\ Contains(diary_result.alternative_perspective, cbt_data_str[1])
           ELSE /\ JsonLoads(pure_json_str[1]) = None
                /\ diary_result.diary_text = <<FORMAT_FAILED_TEXT>>
                /\ Contains(diary_result.alternative_perspective, pure_json_str[1])
                /\ Contains(cbt_data_str[1], pure_json_str[1])

\* C16 witness: a fenced, malformed object was answered; the span inside the
\* fence was recovered and rejected by json.loads
C16_Witness ==
    /\ Unparsable
    /\ pure_json_str # None
    /\ pure_json_str # cbt_data_str
    /\ cbt_data_str[1][1] = FENCE_OPEN

\* the thoughts of the parsed record, when they have one of the two accepted forms
PlainThoughts ==
    LET thoughts_list == DictGet(cbt_data[1], "thoughts", JList(<<>>))
    IN  /\ thoughts_list.type = "list"
        /\ \A i \in 1..Len(thoughts_list.items) :
              thoughts_list.items[i].type \in {"str", "obj"}

\* C17: the model calls of the diary pipeline come in the order extract,
\* reinterpret, generate-diary; after a successful extraction the reinterpret
\* call is made exactly when the thoughts list is not empty, and with an empty
\* list the alternative perspective is the empty text and the generate-diary
\* call is still made.
C17_StageOrderAndReinterpretIffThoughts ==
    /\ diary_calls \in {<<>>, <<"extract">>, <<"extract", "reinterpret">>,
                        <<"extract", "generate-diary">>,
                        <<"extract", "reinterpret", "generate-diary">>}
    /\ (cbt_data # None /\ PlainThoughts) =>
          LET items == DictGet(cbt_data[1], "thoughts", JList(<<>>)).items
          IN  /\ (dpc = "gen_perspective" \/ Contains(diary_calls, <<"reinterpret">>))
                    <=> items # <<>>
              /\ (items = <<>>) =>
                    /\ final_alternative_perspective = <<>>
                    /\ dpc = "create_diary" \/ diary_calls = <<"extract", "generate-diary">>
                    /\ (DiaryReturned /\ diary_result.diary_text \in Diaries) =>
                          diary_result.alternative_perspective = <<>>

\* C17 witness: thoughts given as an object with a text field; all three calls
\* were made and the result carries the perspective
C17_Witness ==
    /\ DiaryReturned
    /\ cbt_data # None
    /\ DictGet(cbt_data[1], "thoughts", JList(<<>>)) = JList(<<JObj(Some(<<"t">>))>>)
    /\ diary_calls = <<"extract", "reinterpret", "generate-diary">>
    /\ diary_result.alternative_perspective \in Perspectives

\* texts that run from a "{" to a "}"
ObjectTexts == {body \in Stage1Bodies : body # <<>> /\ Head(body) = "{"
                                           /\ body[Len(body)] = "}"}

\* the text has a "{" with a "}" somewhere behind it
HasSpan(text) == \E i, j \in 1..Len(text) : i < j /\ text[i] = "{" /\ text[j] = "}"

\* C18: for every object text J, the span recovered from J inside a fence is J,
\* the span recovered from J alone, and the parsed record is the same; an
\* output with no span that does not start with "{" once trimmed yields nothing.
C18_RecoveryIgnoresFences ==
    (cbt_data_str # None) =>
        /\ \A J \in ObjectTexts :
              (cbt_data_str[1] = Wrap("fenced", J)) =>
                  /\ pure_json_str = Some(J)
                  /\ pure_json_str = ExtractJsonFromMarkdown(J)
                  /\ cbt_data = JsonLoads(J)
        /\ (~HasSpan(cbt_data_str[1])
              /\ (Strip(cbt_data_str[1]) = <<>> \/ Head(Strip(cbt_data_str[1])) # "{")) =>
                  /\ pure_json_str = None
                  /\ cbt_data = None

\* C18 witness: a fenced well-formed object was answered and parsed
C18_Witness ==
    /\ cbt_data_str # None
    /\ cbt_data # None
    /\ \E J \in ObjectTexts : cbt_data_str[1] = Wrap("fenced", J)

\* the shape C19 gives the context of worker p, with the knowledge block
\* present exactly when hasSnippet
ContextShape(p, hasSnippet) ==
    LET ctx   == context[p]
        sys   == ctx[1].content
        block == IF hasSnippet
                 THEN <<"\n", KNOWLEDGE_LABEL>> \o manual_context[p][1] \o <<"\n">>
                 ELSE <<>>
        head  == <<SYSTEM_PROMPT>> \o block
        rest  == SubSeq(sys, Len(head) + 1, Len(sys))
    IN  /\ Len(ctx) = Len(buffered_messages[p]) + 2
        /\ ctx[1].type = "system"
        /\ Len(sys) >= Len(head)
        /\ SubSeq(sys, 1, Len(head)) = head
        /\ IF similar_diaries[p] = <<>>
           THEN rest = <<>>
           ELSE Len(rest) > 2 /\ rest[1] = "\n" /\ rest[2] = DIARY_LABEL
        /\ Cardinality({i \in 1..Len(sys) : sys[i] = KNOWLEDGE_LABEL}) =
              (IF hasSnippet THEN 1 ELSE 0)
        /\ \A i \in 1..Len(buffered_messages[p]) : ctx[i + 1] = buffered_messages[p][i]
        /\ ctx[Len(ctx)] = HumanMessage(user_message[p])

\* C19 as claimed: the context is one system message (base instructions, the
\* knowledge block if a snippet is present, the diary block if items were
\* retrieved), the buffered messages verbatim, the current user message last;
\* its length is the number of buffered messages plus 2.
C19_ContextShape ==
    \A p \in Procs : Assembled(p) => ContextShape(p, manual_context[p] # None)

\* C19 amended: as claimed, with the knowledge block present exactly when the
\* snippet is present and not the empty text.
C19_ContextShapeNonEmptySnippet ==
    \A p \in Procs :
        Assembled(p) =>
            ContextShape(p, manual_context[p] # None /\ manual_context[p][1] # <<>>)

\* C19 witness: a context was assembled from a knowledge snippet, retrieved
\* diaries and a buffered conversation
C19_Witness ==
    \E p \in Procs :
        /\ Assembled(p)
        /\ manual_context[p] = Some(<<"k">>)
        /\ similar_diaries[p] # <<>>
        /\ Len(buffered_messages[p]) >= 2

\* number of atoms the line of one diary takes: index, ". [", date, "] ", at
\* most 200 atoms of content, suffix
LineLen(diary) == 5 + (IF Len(diary.content) < 200 THEN Len(diary.content) ELSE 200)

RECURSIVE LineStart(_, _)
LineStart(diaries, i) ==
    IF i = 1 THEN 1 ELSE LineStart(diaries, i - 1) + LineLen(diaries[i - 1])

\* C20: the diary block holds one line per retrieved item and nothing else, in
\* retrieval order, numbered from 1, with the creation date or the unknown
\* placeholder, then at most the first 200 characters of the content, then the
\* fixed suffix.
C20_DiaryLinesRendered ==
    \A p \in Procs :
        Assembled(p) =>
            LET sys     == context[p][1].content
                diaries == similar_diaries[p]
                n       == Len(diaries)
                at      == FirstIndex(sys, DIARY_LABEL)
                block   == SubSeq(sys, at + 1, Len(sys))
            IN  IF n = 0
                THEN at = 0
                ELSE /\ at > 0
                     /\ Len(block) = LineStart(diaries, n + 1) - 1
                     /\ \A i \in 1..n :
                           LET line == SubSeq(block, LineStart(diaries, i),
                                              LineStart(diaries, i + 1) - 1)
                               text == SubSeq(line, 5, Len(line) - 1)
                           IN  /\ line[1] = ToString(i)
                               /\ line[2] = ". ["
                               /\ line[3] = (IF diaries[i].metadata.created_at = None
                                             THEN UNKNOWN_DATE
                                             ELSE diaries[i].metadata.created_at[1])
                               /\ line[4] = "] "
                               /\ Len(text) <= 200
                               /\ Len(text) <= Len(diaries[i].content)
                               /\ (Len(text) = 200 \/ Len(text) = Len(diaries[i].content))
                               /\ text = SubSeq(diaries[i].content, 1, Len(text))
                               /\ line[Len(line)] = "...\n"

\* C20 witness: three diaries were rendered, the first longer than 200
\* characters, the second and the third equal
C20_Witness ==
    \E p \in Procs :
        /\ Assembled(p)
        /\ Len(similar_diaries[p]) = 3
        /\ Len(similar_diaries[p][1].content) > 200
        /\ similar_diaries[p][2] = similar_diaries[p][3]

\* C21: a call that returned gives as answer the content of the assistant turn
\* it appended, and as dates the creation dates of the retrieved diaries, one
\* per item and in retrieval order; with nothing retrieved the dates are none,
\* not an empty list.
C21_AnswerAndDates ==
    \A p \in Procs :
        (outcome[p].status = "returned") =>
            /\ Len(appended[p]) = 2
            /\ appended[p][2] = Turn("assistant", outcome[p].answer)
            /\ \E i \in 1..Len(log[session_id[p]]) :
                  log[session_id[p]][i] = Turn("assistant", outcome[p].answer)
            /\ IF similar_diaries[p] = <<>>
               THEN outcome[p].dates = None
               ELSE /\ outcome[p].dates # None
                    /\ Len(outcome[p].dates[1]) = Len(similar_diaries[p])
                    /\ \A i \in 1..Len(similar_diaries[p]) :
                          outcome[p].dates[1][i] = similar_diaries[p][i].metadata.created_at

\* C21 witness: a call returned the dates of three diaries, the second undated
C21_Witness ==
    \E p \in Procs :
        /\ outcome[p].status = "returned"
        /\ Len(similar_diaries[p]) = 3
        /\ outcome[p].dates # None
        /\ outcome[p].dates[1][1] # None
        /\ outcome[p].dates[1][2] = None

\* C22: the recent turns compress returns are a contiguous suffix of the log it
\* was given, their estimated cost is within the budget, and the suffix is
\* maximal: with an old turn left, the newest old turn would push the total
\* over the budget.
C22_RecentIsMaximalSuffix ==
    \A p \in Procs :
        (CompressReturned(p) /\ full_conversation[p] # <<>>) =>
            LET conv   == full_conversation[p]
                n      == Len(ReturnedRecent(p))
                suffix == SubSeq(conv, Len(conv) - n + 1, Len(conv))
            IN  /\ n <= Len(conv)
                /\ ReturnedRecent(p) = Verbatim(suffix)
                /\ LogTokens(suffix) <= MAX_TOKEN_LIMIT
                /\ (n < Len(conv)) =>
                      LogTokens(suffix) + TokenCount(conv[Len(conv) - n].content)
                          > MAX_TOKEN_LIMIT

\* C22 witness: compress returned three recent turns of a log of four
C22_Witness ==
    \E p \in Procs :
        /\ CompressReturned(p)
        /\ Len(full_conversation[p]) = 4
        /\ Len(ReturnedRecent(p)) = 3

\* worker p takes the step that ends its recompute (the second cache write)
EndsRecompute(p) == pc[p] = "hset_count" /\ pc'[p] # "hset_count"

\* C23: when a recompute with k old turns ends, the cached summary is the
\* model's summary of turns 1..k of the log the call was given, the cached
\* count is k, and the call gets one system-role summary message followed by
\* its recent turns, whatever was cached before.
C23_RecomputeFromScratch ==
    [][\A p \in Procs :
          EndsRecompute(p) =>
              LET s    == session_id[p]
                  conv == full_conversation[p]
                  k    == Len(OldMessages(conv))
                  text == LLMSummary(blank_llm, ConversationText(SubSeq(conv, 1, k)))
              IN  /\ k > 0
                  /\ summary'[s] = Some(text)
                  /\ summarized_count'[s] = Some(k)
                  /\ buffered_messages'[p] =
                        <<SystemMessage(<<SUMMARY_LABEL, "\n">> \o text)>>
                           \o Verbatim(SubSeq(conv, k + 1, Len(conv)))]_vars

\* seq a is a prefix of seq b
IsPrefix(a, b) == Len(a) <= Len(b) /\ SubSeq(b, 1, Len(a)) = a

\* C24: in every reachable state of racing requests a session's stored
\* summarized count is at most the number of turns in that session's log: the
\* count a recompute is about to write is at most the length of the log it was
\* given, and that log is a prefix of the session's log now.
C24_CountWithinLog ==
    /\ \A s \in DOMAIN log :
           summarized_count[s] # None =>
               summarized_count[s][1] \in 1..Len(log[s])
    /\ \A p \in Procs :
           pc[p] \in {"summarize", "hset_summary", "hset_count"} =>
               /\ Len(OldMessages(full_conversation[p])) <= Len(full_conversation[p])
               /\ IsPrefix(full_conversation[p], log[session_id[p]])

\* a count of 3 is stored for a log of four turns while the other worker, which
\* loaded the log at two turns, is about to write its own count
C24_Witness ==
    \E p \in Procs :
        /\ pc[p] = "hset_count"
        /\ Len(full_conversation[p]) = 2
        /\ summarized_count[session_id[p]] = Some(3)
        /\ Len(log[session_id[p]]) = 4

\* C25: frame of the core's operations. After every step the previous log of
\* each session is a prefix of the new one; only the two append steps of
\* process change a log, each by one turn, and they leave summary and count
\* alone; no step of compress and no step of the diary call changes a log, and
\* the diary call changes no cache field either; the summary is written only
\* by the first cache write of a recompute and the count only by the second;
\* a stored summary or count is never removed.
C25_Frame ==
    [][/\ DOMAIN log' = DOMAIN log
       /\ \A s \in DOMAIN log :
             /\ IsPrefix(log[s], log'[s])
             /\ summary[s] # None => summary'[s] # None
             /\ summarized_count[s] # None => summarized_count'[s] # None
       /\ log' # log =>
             \E p \in Procs :
                 /\ pc[p] \in {"add_user", "add_assistant"}
                 /\ pc'[p] # pc[p]
                 /\ Len(log'[session_id[p]]) = Len(log[session_id[p]]) + 1
                 /\ summary' = summary
                 /\ summarized_count' = summarized_count
       /\ \A p \in Procs :
             (pc[p] \in CompressPcs /\ pc'[p] # pc[p]) => log' = log
       /\ diaryVars' # diaryVars => storeVars' = storeVars
       /\ summary' # summary =>
             \E p \in Procs :
                 /\ pc[p] = "hset_summary" /\ pc'[p] = "hset_count"
                 /\ calls[p].summarize = 1
       /\ summarized_count' # summarized_count =>
             \E p \in Procs :
                 /\ pc[p] = "hset_count" /\ pc'[p] # pc[p]
                 /\ calls[p].summarize = 1]_vars

\* a diary call has returned on a log of four turns whose summary is cached
C25_Witness ==
    /\ dpc = "returned"
    /\ Len(transcript_turns) = 4
    /\ summary[diary_session] # None
    /\ summarized_count[diary_session] # None
    /\ Len(log[diary_session]) = 4

\* position of a step of process_message in the order of lines 374-420
PcRank(at) ==
    CASE at = "idle" -> 0
      [] at = "load" -> 1
      [] at = "hget_summary" -> 2
      [] at = "hget_count" -> 3
      [] at = "summarize" -> 4
      [] at = "hset_summary" -> 5
      [] at = "hset_count" -> 6
      [] at = "search_diaries" -> 7
      [] at = "query_manual" -> 8
      [] at = "generate" -> 9
      [] at = "add_user" -> 10
      [] at = "add_assistant" -> 11
      [] at = "returned" -> 12
      [] OTHER -> 13

\* how often message m occurs in a sequence of messages
RECURSIVE Occurrences(_, _)
Occurrences(msgs, m) ==
    IF msgs = <<>> THEN 0
    ELSE (IF Head(msgs) = m THEN 1 ELSE 0) + Occurrences(Tail(msgs), m)

\* C26: within one process call the steps run in the order existence check,
\* load, compress (at most one summarization call, followed by its two cache
\* writes), diary retrieval, knowledge retrieval, assembly and one generation
\* call, the two appends. The log is loaded before any turn of this request is
\* appended, so the assembled context holds the current user message once more
\* than the compressed history does, as its last message. A step that ends the
\* call with a failure changes neither log nor cache, and a failed call has
\* appended nothing.
C26_StepOrder ==
    [][\A p \in Procs :
          /\ calls[p].load <= 1 /\ calls[p].summarize <= 1 /\ calls[p].diary <= 1
          /\ calls[p].manual <= 1 /\ calls[p].generate <= 1
          /\ calls[p].summarize > 0 => calls[p].load = 1
          /\ calls[p].cache_write > 0 => calls[p].summarize = 1
          /\ calls[p].diary > 0 =>
                 calls[p].load = 1 /\ calls[p].cache_write = 2 * calls[p].summarize
          /\ calls[p].manual > 0 => calls[p].diary = 1
          /\ calls[p].generate > 0 => calls[p].diary = 1 /\ Assembled(p)
          /\ appended[p] # <<>> => calls[p].generate = 1 /\ pc[p] \in {"add_assistant", "returned"}
          /\ Assembled(p) =>
                 /\ calls[p].generate = 1
                 /\ context[p][Len(context[p])] = HumanMessage(user_message[p])
                 /\ Occurrences(context[p], HumanMessage(user_message[p]))
                        = Occurrences(buffered_messages[p], HumanMessage(user_message[p])) + 1
                 /\ ReturnedRecent(p) =
                        Verbatim(SubSeq(full_conversation[p],
                                        Len(full_conversation[p]) - Len(ReturnedRecent(p)) + 1,
                                        Len(full_conversation[p])))
          /\ (pc'[p] # pc[p] /\ pc'[p] \notin {"idle", "raised"}) =>
                 PcRank(pc'[p]) > PcRank(pc[p])
          /\ (pc'[p] # pc[p] /\ pc'[p] = "idle") => pc[p] \in {"returned", "raised"}
          /\ (pc[p] = "load" /\ pc'[p] # pc[p]) =>
                 /\ appended[p] = <<>>
                 /\ full_conversation'[p] = log[session_id[p]]
          /\ (pc[p] = "generate" /\ pc'[p] # pc[p]) =>
                 calls'[p].generate = 1 /\ Assembled(p)' /\ log' = log
          /\ (pc[p] # "raised" /\ pc'[p] = "raised") =>
                 /\ storeVars' = storeVars
                 /\ appended[p] = <<>>]_vars

\* a call whose compress made a summarization call and both cache writes has
\* failed in its generation call
C26_Witness ==
    \E p \in Procs :
        /\ pc[p] = "raised"
        /\ calls[p].generate = 1
        /\ calls[p].cache_write = 2
        /\ summary[session_id[p]] # None
        /\ appended[p] = <<>>
        /\ Len(context[p]) = 4

\* C27: the number of old turns of a session's log never decreases when a turn
\* is appended, and a session's stored summarized count never decreases from
\* one state to the next, whatever the interleaving of the process calls on the
\* session.
C27_CountNeverDecreases ==
    [][\A s \in DOMAIN log :
          /\ Len(OldMessages(log[s])) <= Len(OldMessages(log'[s]))
          /\ summarized_count[s] # None =>
                 /\ summarized_count'[s] # None
                 /\ summarized_count'[s][1] >= summarized_count[s][1]]_vars

\* C28: in every state in which no process call is between its two appends, each
\* session's log has even length and is made of adjacent pairs, a user turn
\* immediately followed by an assistant turn, also when calls on the same
\* session run concurrently.
C28_AdjacentPairs ==
    (\A p \in Procs : pc[p] # "add_assistant") =>
        \A s \in DOMAIN log :
            /\ Len(log[s]) % 2 = 0
            /\ \A i \in 1..Len(log[s]) :
                   log[s][i].role = (IF i % 2 = 1 THEN "user" ELSE "assistant")

\* a recompute on session s has stopped between its two cache writes
CrashedOn(s) == \E q \in Procs : pc[q] = "crashed" /\ session_id[q] = s

\* C29: after a recompute on a session has stopped between the two cache
\* writes, every later compress call on that session that returns with a
\* summary returns the summary of exactly the old turns of the log it loaded,
\* and it has recomputed whenever the count it read was missing or smaller
\* than the number of those old turns.
C29_RecoversAfterCrash ==
    \A p \in Procs :
        (CompressReturned(p) /\ summary_text[p] # None /\ CrashedOn(session_id[p])) =>
            LET old == OldMessages(full_conversation[p])
            IN  /\ summary_text[p][1] = LLMSummary(blank_llm, ConversationText(old))
                /\ (cached_msg_count[p] = None \/ cached_msg_count[p][1] < Len(old)) =>
                       calls[p].summarize = 1

\* worker p takes a step
Acts(p) == pc'[p] # pc[p]

\* the store fields of session s are left as they are
SessionUnchanged(s) ==
    /\ log'[s] = log[s]
    /\ summary'[s] = summary[s]
    /\ summarized_count'[s] = summarized_count[s]

\* C30: session isolation. A step of a process call (its compress included)
\* leaves the log, summary and count of every session other than its own
\* unchanged, and a step of a diary call leaves every session's unchanged,
\* whatever the other handlers are doing on other sessions. What a call reads
\* is its own session's log and cache fields, the summary it produces is the
\* cached text it read or the summary of the old turns of the log it loaded,
\* the context its reply is generated from is built from that compressed
\* history, and a diary call works on the log of its own session.
C30_SessionIsolation ==
    [][/\ \A p \in Procs :
             Acts(p) =>
                 /\ \A s \in DOMAIN log \ {session_id[p], session_id'[p]} :
                        SessionUnchanged(s)
                 /\ pc[p] = "load" => full_conversation'[p] = log[session_id[p]]
                 /\ pc[p] = "hget_summary" => cached_summary'[p] = summary[session_id[p]]
                 /\ pc[p] = "hget_count" =>
                        cached_msg_count'[p] = summarized_count[session_id[p]]
                 /\ (summary_text'[p] # None /\ summary_text'[p] # summary_text[p]) =>
                        \/ summary_text'[p] = cached_summary[p]
                        \/ summary_text'[p] =
                               Some(LLMSummary(blank_llm,
                                        ConversationText(OldMessages(full_conversation[p]))))
                 /\ pc[p] = "generate" =>
                        /\ buffered_messages[p] =
                               IF summary_text[p] = None
                               THEN ConvertToLangchainMessages(
                                        RecentMessages(full_conversation[p]))
                               ELSE BufferedWithSummary(summary_text[p][1],
                                        RecentMessages(full_conversation[p]))
                        /\ context'[p] =
                               BuildContextWithMemory(similar_diaries[p],
                                   buffered_messages[p], user_message[p],
                                   manual_context[p])
       /\ diaryVars' # diaryVars =>
             /\ \A s \in DOMAIN log : SessionUnchanged(s)
             /\ (dpc = "idle" /\ dpc' # "idle") => transcript_turns' = log[diary_session']
             /\ dpc # "idle" => (dpc' = "idle" \/ transcript_turns' = transcript_turns)]_vars

\* both sessions hold different logs and different cached summaries while one
\* worker is between its two appends on s1, the other between its two cache
\* writes on s2 and a diary call is running on s2
C30_Witness ==
    /\ pc["w1"] = "add_assistant" /\ session_id["w1"] = "s1"
    /\ pc["w2"] = "hset_count" /\ session_id["w2"] = "s2"
    /\ summary["s1"] # None /\ summary["s2"] # None
    /\ summary["s1"] # summary["s2"]
    /\ log["s1"] # log["s2"]
    /\ dpc = "gen_perspective" /\ diary_session = "s2"

=============================================================================
